---- MODULE Spec2Model ----
(***************************************************************************)
(* The AnchorBoxes layer of keras_layers/keras_layer_AnchorBoxes.py as a   *)
(* state machine: the constructor's argument checks, and call(), which     *)
(* lays out the anchor boxes of one feature map.                           *)
(*                                                                         *)
(* Numbers are exact rationals <<numerator, denominator>> in lowest terms  *)
(* with a positive denominator.  np.sqrt is taken on inputs whose root is  *)
(* rational, so that every value of the computation is exact.              *)
(***************************************************************************)
EXTENDS Integers, Sequences, FiniteSets, TLC

VARIABLES
    pc,          \* "start", "constructed" (the caller holds an instance), "failed"
    backend,     \* K.backend()
    args,        \* the arguments the constructor was called with
    self,        \* the instance's attributes, as far as __init__ assigned them
    raised,      \* the exception __init__ raised, NoError if none
    layer,       \* what the caller's layer = AnchorBoxes(...) is bound to
    x_shape,     \* K.int_shape(x) of the last call, <<>> before the first
    dim_ordering,\* K.image_dim_ordering() at the last call, "" before the first
    out,         \* the tensor the last call returned, <<>> if none
    call_raised, \* the exception the last call raised, NoError if none
    reported,    \* compute_output_shape(K.int_shape(x)) of the last call
    first,       \* what the first call on the instance returned or raised
    calls,       \* the number of calls made on the instance
    config,      \* the dict get_config returned, <<>> before
    restored,    \* the outcome of the construction from config
    build_args,  \* the arguments build_model was called with
    model        \* the outcome of build_model

vars == <<pc, backend, args, self, raised, layer, x_shape, dim_ordering, out,
          call_raised, reported, first, calls, config, restored, build_args, model>>

----------------------------------------------------------------------------
(* Bounds of the model.                                                    *)

\* Largest feature map height and width a call is given.
MaxGrid == 2
\* Longest aspect_ratios list of the geometry configurations.
MaxLen == 2
\* Most calls made on one instance.
MaxCalls == 2

----------------------------------------------------------------------------
(* Exact rational arithmetic.                                              *)

Abs(n) == IF n < 0 THEN -n ELSE n

RECURSIVE GCD(_, _)
GCD(a, b) == IF b = 0 THEN a ELSE GCD(b, a % b)

Norm(n, d) ==
    LET g == GCD(Abs(n), d)
    IN  IF n = 0 THEN <<0, 1>> ELSE <<n \div g, d \div g>>

R(n) == <<n, 1>>
Q(n, d) == Norm(n, d)

RAdd(p, q) == Norm(p[1] * q[2] + q[1] * p[2], p[2] * q[2])
RSub(p, q) == Norm(p[1] * q[2] - q[1] * p[2], p[2] * q[2])
RMul(p, q) == Norm(p[1] * q[1], p[2] * q[2])
\* p / q for q # 0
RDiv(p, q) ==
    IF q[1] < 0 THEN Norm(-(p[1] * q[2]), p[2] * (-q[1]))
    ELSE Norm(p[1] * q[2], p[2] * q[1])
RLt(p, q) == p[1] * q[2] < q[1] * p[2]
RLe(p, q) == p[1] * q[2] <= q[1] * p[2]
RGe(p, q) == RLe(q, p)

RECURSIVE ISqrtIn(_, _, _)
\* the largest k in lo..hi with k * k <= n
ISqrtIn(n, lo, hi) ==
    IF lo = hi THEN lo
    ELSE LET mid == (lo + hi + 1) \div 2
         IN  IF mid * mid <= n THEN ISqrtIn(n, mid, hi) ELSE ISqrtIn(n, lo, mid - 1)

\* the integer part of the square root of n
ISqrt(n) == ISqrtIn(n, 0, IF n < 46340 THEN n ELSE 46340)

IsSquare(n) == ISqrt(n) * ISqrt(n) = n

\* The denominator to which np.sqrt is rounded where the root is irrational.
SqrtDen == 1000

\* the multiple of p's denominator nearest below SqrtDen, at least the denominator
SqrtGrid(p) == p[2] * (IF SqrtDen \div p[2] < 1 THEN 1 ELSE SqrtDen \div p[2])

\* np.sqrt: exact where the root is rational; an irrational root is rounded
\* down to a multiple of 1 / SqrtGrid(p), which stands for the rounding of
\* floating point.
RSqrt(p) ==
    IF IsSquare(p[1]) /\ IsSquare(p[2]) THEN Norm(ISqrt(p[1]), ISqrt(p[2]))
    ELSE LET g == SqrtGrid(p)
         IN  Norm(ISqrt(p[1] * (g \div p[2]) * g), g)

----------------------------------------------------------------------------
(* Python values: the type decides isinstance, num holds a number, items   *)
(* the numbers of a list, tuple or array, str a string.                    *)

PyVal(t, n, i, s) == [ty |-> t, num |-> n, items |-> i, str |-> s]
PyNone == PyVal("NoneType", R(0), <<>>, "")
PyInt(n) == PyVal("int", R(n), <<>>, "")
PyFloat(n, d) == PyVal("float", Q(n, d), <<>>, "")
PyBool(b) == PyVal("bool", IF b THEN R(1) ELSE R(0), <<>>, "")
PyStr(s) == PyVal("str", R(0), <<>>, s)
PyList(i) == PyVal("list", R(0), i, "")
PyTuple(i) == PyVal("tuple", R(0), i, "")
NdArray(i) == PyVal("ndarray", R(0), i, "")
\* an attribute __init__ has not assigned
Unset == PyVal("unset", R(0), <<>>, "")

\* isinstance(v, int): bool is a subclass of int
IsInt(v) == v.ty \in {"int", "bool"}
IsFloat(v) == v.ty = "float"
IsNumber(v) == v.ty \in {"int", "bool", "float"}
IsListOrTuple(v) == v.ty \in {"list", "tuple"}
IsBool(v) == v.ty = "bool"
\* len(v) is defined
HasLen(v) == v.ty \in {"list", "tuple", "str", "ndarray"}
\* np.any(np.array(v) <= 0)
AnyNonPositive(v) == \E i \in 1..Len(v.items) : RLe(v.items[i], R(0))
\* 1 in v
ContainsOne(v) == \E i \in 1..Len(v.items) : v.items[i] = R(1)

\* An exception: its class, its message and the source line that raises it.
NoError == [cls |-> "", msg |-> "", line |-> 0]
Error(c, m, l) == [cls |-> c, msg |-> m, line |-> l]

----------------------------------------------------------------------------
(* AnchorBoxes.__init__                                                    *)

Fields == {"img_height", "img_width", "this_scale", "next_scale", "aspect_ratios",
           "two_boxes_for_ar1", "this_steps", "this_offsets", "clip_boxes",
           "variances", "coords", "normalize_coords", "n_boxes"}

NoSelf == [f \in Fields |-> Unset]

\* The messages of the raise statements, without their backquotes; {} is a
\* place str.format fills.

MsgBackend == "This layer only supports TensorFlow at the moment, but you are using the {} backend."
MsgImgType == "img_height and img_width must be float"
MsgImgRange == "img_height and img_width must be greater than 0"
MsgScaleType == "this_scale and next_scale must be float"
MsgScaleRange == "this_scale and next_scale must be > 0but this_scale == {}, next_scale == {}"
MsgRatiosType == "Aspect ratios must be a list or tuple and not empty"
MsgRatiosRange == "All aspect ratios must be greater than zero."
MsgVarLen == "4 variance values must be passed, but {} values were received."
MsgVarRange == "All variances must be >0, but the variances given are {}"
MsgCoords == "Unexpected value for coords. Supported values are 'minmax', 'corners' and 'centroids'."
MsgSteps == "This steps must be a 2-int/float list/tuple or a int/float"
MsgOffsets == "This steps must be a 2-int/float list/tuple or a int/float"
MsgTwoBoxes == "two_boxes_for_ar1 must be bool"
MsgClip == "clip_boxes must be bool"
MsgNormalize == "normalize_coords must be bool"
\* raised by len() inside the format of MsgVarLen
MsgNoLen == "object of type '{}' has no len()"

\* the raise statements of __init__, by their line
RaiseAt(l) ==
    CASE l = 106 -> Error("TypeError", MsgBackend, l)
      [] l = 111 -> Error("ValueError", MsgImgType, l)
      [] l = 113 -> Error("ValueError", MsgImgRange, l)
      [] l = 119 -> Error("ValueError", MsgScaleType, l)
      [] l = 121 -> Error("ValueError", MsgScaleRange, l)
      [] l = 129 -> Error("ValueError", MsgRatiosType, l)
      [] l = 132 -> Error("ValueError", MsgRatiosRange, l)
      [] l = 138 -> Error("ValueError", MsgVarLen, l)
      [] l = 142 -> Error("ValueError", MsgVarRange, l)
      [] l = 147 -> Error("ValueError", MsgCoords, l)
      [] l = 154 -> Error("ValueError", MsgSteps, l)
      [] l = 163 -> Error("ValueError", MsgOffsets, l)
      [] l = 170 -> Error("ValueError", MsgTwoBoxes, l)
      [] l = 175 -> Error("ValueError", MsgClip, l)
      [] l = 180 -> Error("ValueError", MsgNormalize, l)

RaiseLines == {106, 111, 113, 119, 121, 129, 132, 138, 142, 147, 154, 163, 170, 175, 180}

\* the outcome of __init__: the attributes assigned so far and the exception
Outcome(s, e) == [self |-> s, raised |-> e]

\* (isinstance(v, (list, tuple)) and len(v) == 2) or isinstance(v, (int, float))
PairOrNumber(v) == (IsListOrTuple(v) /\ Len(v.items) = 2) \/ IsNumber(v)

\* the number of boxes per cell
NBoxes(a) ==
    IF ContainsOne(a.aspect_ratios) /\ a.two_boxes_for_ar1 = PyBool(TRUE)
    THEN Len(a.aspect_ratios.items) + 1
    ELSE Len(a.aspect_ratios.items)

InitFlags(a, s) ==
    IF ~IsBool(a.two_boxes_for_ar1) THEN Outcome(s, RaiseAt(170))
    ELSE LET s1 == [s EXCEPT !.two_boxes_for_ar1 = a.two_boxes_for_ar1] IN
    IF ~IsBool(a.clip_boxes) THEN Outcome(s1, RaiseAt(175))
    ELSE LET s2 == [s1 EXCEPT !.clip_boxes = a.clip_boxes] IN
    IF ~IsBool(a.normalize_coords) THEN Outcome(s2, RaiseAt(180))
    ELSE LET s3 == [s2 EXCEPT !.normalize_coords = a.normalize_coords] IN
    Outcome([s3 EXCEPT !.n_boxes = PyInt(NBoxes(a))], NoError)

InitStepsOffsets(a, s) ==
    IF a.this_steps # PyNone /\ ~PairOrNumber(a.this_steps)
    THEN Outcome(s, RaiseAt(154))
    ELSE LET s1 == [s EXCEPT !.this_steps = a.this_steps] IN
    IF a.this_offsets # PyNone /\ ~PairOrNumber(a.this_offsets)
    THEN Outcome(s1, RaiseAt(163))
    ELSE InitFlags(a, [s1 EXCEPT !.this_offsets = a.this_offsets])

InitVariancesCoords(a, s) ==
    IF ~(IsListOrTuple(a.variances) /\ Len(a.variances.items) = 4)
    THEN \* the message is formatted with len(variances)
         IF HasLen(a.variances) THEN Outcome(s, RaiseAt(138))
         ELSE Outcome(s, Error("TypeError", MsgNoLen, 138))
    ELSE IF AnyNonPositive(a.variances)
    THEN Outcome(s, RaiseAt(142))
    ELSE LET s1 == [s EXCEPT !.variances = NdArray(a.variances.items)] IN
    IF ~(a.coords.ty = "str" /\ a.coords.str \in {"minmax", "centroids", "corners"})
    THEN Outcome(s1, RaiseAt(147))
    ELSE InitStepsOffsets(a, [s1 EXCEPT !.coords = a.coords])

InitScalesRatios(a, s) ==
    IF ~(IsFloat(a.this_scale) /\ IsFloat(a.next_scale))
    THEN Outcome(s, RaiseAt(119))
    ELSE IF ~(RLt(R(0), a.this_scale.num) /\ RLt(R(0), a.next_scale.num))
    THEN Outcome(s, RaiseAt(121))
    ELSE LET s1 == [s EXCEPT !.this_scale = a.this_scale, !.next_scale = a.next_scale] IN
    IF ~(IsListOrTuple(a.aspect_ratios) /\ Len(a.aspect_ratios.items) > 0)
    THEN Outcome(s1, RaiseAt(129))
    ELSE IF AnyNonPositive(a.aspect_ratios)
    THEN Outcome(s1, RaiseAt(132))
    ELSE InitVariancesCoords(a, [s1 EXCEPT !.aspect_ratios = a.aspect_ratios])

\* __init__ with the arguments a under backend be
AnchorBoxes_init(be, a) ==
    IF be # "tensorflow" THEN Outcome(NoSelf, RaiseAt(106))
    ELSE IF ~(IsInt(a.img_height) /\ IsInt(a.img_width))
    THEN Outcome(NoSelf, RaiseAt(111))
    ELSE IF ~(RLt(R(0), a.img_height.num) /\ RLt(R(0), a.img_width.num))
    THEN Outcome(NoSelf, RaiseAt(113))
    ELSE InitScalesRatios(a, [NoSelf EXCEPT !.img_height = a.img_height,
                                            !.img_width = a.img_width])

\* no object: what a name is bound to when the constructor raised
NoLayer == [bound |-> FALSE, obj |-> NoSelf]

\* bound_layer if the object under construction reached the caller even
\* when __init__ raised
bound_layer_despite_raise(r) == [bound |-> TRUE, obj |-> r.self]

\* layer = AnchorBoxes(...): the name is bound only if __init__ returned
bound_layer(r) ==
    IF r.raised = NoError THEN [bound |-> TRUE, obj |-> r.self] ELSE NoLayer

----------------------------------------------------------------------------
(* bounding_box_utils.convert_coordinates, on one box                      *)

Half(p) == RDiv(p, R(2))

\* (cx, cy, w, h) -> (xmin, ymin, xmax, ymax)
centroids2corners(b) ==
    <<RSub(b[1], Half(b[3])), RSub(b[2], Half(b[4])),
      RAdd(b[1], Half(b[3])), RAdd(b[2], Half(b[4]))>>

\* (xmin, ymin, xmax, ymax) -> (cx, cy, w, h), border_pixels = 'half'
corners2centroids(b) ==
    <<Half(RAdd(b[1], b[3])), Half(RAdd(b[2], b[4])),
      RSub(b[3], b[1]), RSub(b[4], b[2])>>

\* (xmin, ymin, xmax, ymax) -> (xmin, xmax, ymin, ymax)
corners2minmax(b) == <<b[1], b[3], b[2], b[4]>>

----------------------------------------------------------------------------
(* AnchorBoxes.call                                                        *)

RMin(p, q) == IF RLe(p, q) THEN p ELSE q

\* size = min(self.img_height, self.img_width)
size(s) == RMin(s.img_height.num, s.img_width.num)

\* wh_entries with the square root of the ratio dividing the width and
\* multiplying the height
wh_entries_swapped(s, aspect_ratio) ==
    IF aspect_ratio = R(1)
    THEN LET side == RMul(s.this_scale.num, size(s))
             side2 == RMul(RSqrt(RMul(s.this_scale.num, s.next_scale.num)), size(s))
         IN  IF s.two_boxes_for_ar1 = PyBool(TRUE)
             THEN <<<<side, side>>, <<side2, side2>>>>
             ELSE <<<<side, side>>>>
    ELSE LET box_height == RMul(RMul(s.this_scale.num, size(s)), RSqrt(aspect_ratio))
             box_width == RDiv(RMul(s.this_scale.num, size(s)), RSqrt(aspect_ratio))
         IN  <<<<box_width, box_height>>>>

\* the (box_width, box_height) entries one aspect ratio appends to wh_list
wh_entries(s, aspect_ratio) ==
    IF aspect_ratio = R(1)
    THEN LET side == RMul(s.this_scale.num, size(s))
             side2 == RMul(RSqrt(RMul(s.this_scale.num, s.next_scale.num)), size(s))
         IN  IF s.two_boxes_for_ar1 = PyBool(TRUE)
             THEN <<<<side, side>>, <<side2, side2>>>>
             ELSE <<<<side, side>>>>
    ELSE LET box_height == RDiv(RMul(s.this_scale.num, size(s)), RSqrt(aspect_ratio))
             box_width == RMul(RMul(s.this_scale.num, size(s)), RSqrt(aspect_ratio))
         IN  <<<<box_width, box_height>>>>

RECURSIVE wh_from(_, _)
wh_from(s, i) ==
    IF i > Len(s.aspect_ratios.items) THEN <<>>
    ELSE wh_entries(s, s.aspect_ratios.items[i]) \o wh_from(s, i + 1)

\* wh_list after the loop over self.aspect_ratios
wh_list(s) == wh_from(s, 1)

feature_map_height(xs) == xs[2]
feature_map_width(xs) == xs[3]

step_height(s, xs) ==
    IF s.this_steps = PyNone THEN RDiv(s.img_height.num, R(feature_map_height(xs)))
    ELSE IF IsListOrTuple(s.this_steps) THEN s.this_steps.items[1]
    ELSE s.this_steps.num

\* step_width with the division of Python 2 integers, which truncates
step_width_floor_division(s, xs) ==
    IF s.this_steps = PyNone
    THEN R((s.img_width.num[1] \div s.img_width.num[2]) \div feature_map_width(xs))
    ELSE IF IsListOrTuple(s.this_steps) THEN s.this_steps.items[2]
    ELSE s.this_steps.num

step_width(s, xs) ==
    IF s.this_steps = PyNone THEN RDiv(s.img_width.num, R(feature_map_width(xs)))
    ELSE IF IsListOrTuple(s.this_steps) THEN s.this_steps.items[2]
    ELSE s.this_steps.num

\* offset_height with a default of 0: the first centre on the image border
offset_height_border_default(s) ==
    IF s.this_offsets = PyNone THEN R(0)
    ELSE IF IsListOrTuple(s.this_offsets) THEN s.this_offsets.items[1]
    ELSE s.this_offsets.num

offset_height(s) ==
    IF s.this_offsets = PyNone THEN Q(1, 2)
    ELSE IF IsListOrTuple(s.this_offsets) THEN s.this_offsets.items[1]
    ELSE s.this_offsets.num

\* offset_width taking the first element of a pair
offset_width_first_of_pair(s) ==
    IF s.this_offsets = PyNone THEN Q(1, 2)
    ELSE IF IsListOrTuple(s.this_offsets) THEN s.this_offsets.items[1]
    ELSE s.this_offsets.num

offset_width(s) ==
    IF s.this_offsets = PyNone THEN Q(1, 2)
    ELSE IF IsListOrTuple(s.this_offsets) THEN s.this_offsets.items[2]
    ELSE s.this_offsets.num

\* linspace with np.linspace's endpoint=False: num steps of (stop - start) / num
linspace_endpoint_excluded(start, stop, num) ==
    [i \in 1..num |-> RAdd(start, RMul(R(i - 1), RDiv(RSub(stop, start), R(num))))]

\* np.linspace(start, stop, num), endpoint included
linspace(start, stop, num) ==
    [i \in 1..num |->
        IF num = 1 THEN start
        ELSE RAdd(start, RMul(R(i - 1), RDiv(RSub(stop, start), R(num - 1))))]

\* cy with the last centre on the lower border of the image
cy_to_image_border(s, xs) ==
    linspace(RMul(offset_height(s), step_height(s, xs)),
             s.img_height.num,
             feature_map_height(xs))

cy(s, xs) ==
    linspace(RMul(offset_height(s), step_height(s, xs)),
             RMul(RAdd(offset_height(s), R(feature_map_height(xs) - 1)), step_height(s, xs)),
             feature_map_height(xs))

cx(s, xs) ==
    linspace(RMul(offset_width(s), step_width(s, xs)),
             RMul(RAdd(offset_width(s), R(feature_map_width(xs) - 1)), step_width(s, xs)),
             feature_map_width(xs))

\* Whether an array of n values can be assigned to a slice whose last axis has
\* m entries (numpy's broadcasting).
Broadcastable(n, m) == n = m \/ n = 1

\* The value numpy assigns at index k when broadcasting vec
BroadcastAt(vec, k) == IF Len(vec) = 1 THEN vec[1] ELSE vec[k]

\* laid_out with cy in channel 0 and cx in channel 1
laid_out_centres_swapped(xc, ys, wh, n_boxes) ==
    [row \in 1..Len(ys) |->
      [col \in 1..Len(xc) |->
        [k \in 1..n_boxes |->
          <<ys[row], xc[col], BroadcastAt(wh, k)[1], BroadcastAt(wh, k)[2]>>]]]

\* np.zeros((height, width, n_boxes, 4)) with the centres xc, ys and the
\* widths and heights wh assigned to its last axis
laid_out(xc, ys, wh, n_boxes) ==
    [row \in 1..Len(ys) |->
      [col \in 1..Len(xc) |->
        [k \in 1..n_boxes |->
          <<xc[col], ys[row], BroadcastAt(wh, k)[1], BroadcastAt(wh, k)[2]>>]]]

\* boxes_tensor with (cx, cy, w, h) in its last axis
\* (each value is bound through a one-element set, which TLC evaluates once)
boxes_centroids(s, xs) ==
    CHOOSE T \in {laid_out(xc, ys, wh, s.n_boxes.num[1]) :
                    xc \in {cx(s, xs)}, ys \in {cy(s, xs)}, wh \in {wh_list(s)}} : TRUE

\* convert_coordinates(T, conversion='centroids2corners')
to_corners(T) ==
    [row \in 1..Len(T) |-> [col \in 1..Len(T[row]) |->
        [k \in 1..Len(T[row][col]) |-> centroids2corners(T[row][col][k])]]]

\* boxes_tensor after the conversion to corners
boxes_corners(s, xs) == CHOOSE C \in {to_corners(T) : T \in {boxes_centroids(s, xs)}} : TRUE

\* clip_coord as a clamp into [0, bound - 1]
clip_coord_clamping(v, bound) ==
    IF RLt(v, R(0)) THEN R(0)
    ELSE IF RLt(RSub(bound, R(1)), v) THEN RSub(bound, R(1))
    ELSE v

\* coords[coords >= bound] = bound - 1, then coords[coords < 0] = 0
clip_coord(v, bound) ==
    LET v1 == IF RGe(v, bound) THEN RSub(bound, R(1)) ELSE v
    IN  IF RLt(v1, R(0)) THEN R(0) ELSE v1

clip_box(s, b) ==
    IF s.clip_boxes = PyBool(TRUE)
    THEN <<clip_coord(b[1], s.img_width.num), clip_coord(b[2], s.img_height.num),
           clip_coord(b[3], s.img_width.num), clip_coord(b[4], s.img_height.num)>>
    ELSE b

\* normalize_box that also clamps every quotient into [0, 1]
normalize_box_clamping(s, b) ==
    IF s.normalize_coords = PyBool(TRUE)
    THEN LET unit(q) == IF RLt(q, R(0)) THEN R(0) ELSE IF RLt(R(1), q) THEN R(1) ELSE q
         IN  <<unit(RDiv(b[1], s.img_width.num)), unit(RDiv(b[2], s.img_height.num)),
               unit(RDiv(b[3], s.img_width.num)), unit(RDiv(b[4], s.img_height.num))>>
    ELSE b

normalize_box(s, b) ==
    IF s.normalize_coords = PyBool(TRUE)
    THEN <<RDiv(b[1], s.img_width.num), RDiv(b[2], s.img_height.num),
           RDiv(b[3], s.img_width.num), RDiv(b[4], s.img_height.num)>>
    ELSE b

\* format_box without the conversion back to centroids
format_box_corners_kept(s, b) ==
    IF s.coords.str = "minmax" THEN corners2minmax(b)
    ELSE b

\* format_box without the conversion of corners to minmax
format_box_minmax_unconverted(s, b) ==
    IF s.coords.str = "centroids" THEN corners2centroids(b)
    ELSE b

\* the conversion to self.coords
format_box(s, b) ==
    IF s.coords.str = "centroids" THEN corners2centroids(b)
    ELSE IF s.coords.str = "minmax" THEN corners2minmax(b)
    ELSE b

\* with_variances when variances_tensor starts as a copy of boxes_tensor
\* instead of zeros
with_variances_on_copy(s, b) == b \o [i \in 1..4 |-> RAdd(b[i], s.variances.items[i])]

\* np.concatenate((boxes_tensor, variances_tensor), axis=-1) on one box
with_variances(s, b) == b \o s.variances.items

\* one box from the corners it has after centroids2corners to its 8 output values
finish_box(s, b) == with_variances(s, format_box(s, normalize_box(s, clip_box(s, b))))

\* every box of the corners tensor T finished
finished(s, T) ==
    [row \in 1..Len(T) |-> [col \in 1..Len(T[row]) |->
        [k \in 1..Len(T[row][col]) |-> finish_box(s, T[row][col][k])]]]

\* the (height, width, n_boxes, 8) array before the batch axis is added
boxes_tensor(s, xs) == CHOOSE B \in {finished(s, T) : T \in {boxes_corners(s, xs)}} : TRUE

\* K.tile(..., (K.shape(x)[0], 1, 1, 1, 1))
tile(T, batch_size) == [b \in 1..batch_size |-> T]

\* raised by numpy when wh_list[:, 0] does not fit boxes_tensor[:, :, :, 2]
MsgBroadcast == "could not broadcast input array from shape ({},) into shape ({},{},{})"

\* The values of K.image_dim_ordering()
DimOrderings == {"tf", "th"}

\* (batch_size, feature_map_height, feature_map_width, feature_map_channels)
\* as call unpacks K.int_shape(x): the two branches are the same statement
call_dims(ordering, int_shape) ==
    IF ordering = "tf"
    THEN <<int_shape[1], int_shape[2], int_shape[3], int_shape[4]>>
    ELSE <<int_shape[1], int_shape[2], int_shape[3], int_shape[4]>>

\* compute_output_shape(input_shape)
compute_output_shape(s, ordering, input_shape) ==
    IF ordering = "tf"
    THEN <<input_shape[1], input_shape[2], input_shape[3], s.n_boxes.num[1], 8>>
    ELSE <<input_shape[1], input_shape[3], input_shape[4], s.n_boxes.num[1], 8>>

\* attributes_after_call if call kept the offsets it resolved on self
attributes_after_call_caching(s, xs) ==
    [s EXCEPT !.this_offsets = PyVal("float", offset_height(s), <<>>, "")]

\* the attributes of self when call is done: call assigns none of them
attributes_after_call(s, xs) == s

\* call(x): the returned tensor, or the exception of the failed assignment
AnchorBoxes_call(s, xs) ==
    IF ~Broadcastable(Len(wh_list(s)), s.n_boxes.num[1])
    THEN [out |-> <<>>, raised |-> Error("ValueError", MsgBroadcast, 310)]
    ELSE CHOOSE r \in {[out |-> tile(T, xs[1]), raised |-> NoError] : T \in {boxes_tensor(s, xs)}} : TRUE

----------------------------------------------------------------------------
(* AnchorBoxes.get_config and the construction from its result             *)

\* the named parameters of __init__
Parameters == {"img_height", "img_width", "this_scale", "next_scale", "aspect_ratios",
               "two_boxes_for_ar1", "this_steps", "this_offsets", "clip_boxes",
               "variances", "coords", "normalize_coords"}

\* the default of parameter f in the signature of __init__; the first four
\* parameters have none
DefaultOf(f) ==
    CASE f = "aspect_ratios" -> PyTuple(<<Q(1, 2), R(1), R(2)>>)
      [] f = "two_boxes_for_ar1" -> PyBool(TRUE)
      [] f = "this_steps" -> PyNone
      [] f = "this_offsets" -> PyNone
      [] f = "clip_boxes" -> PyBool(FALSE)
      [] f = "variances" -> PyTuple(<<Q(1, 10), Q(1, 10), Q(1, 5), Q(1, 5)>>)
      [] f = "coords" -> PyStr("centroids")
      [] f = "normalize_coords" -> PyBool(FALSE)
      [] OTHER -> Unset

\* AnchorBoxes called with the keywords kw: each named parameter takes its keyword or its default,
\* the other keywords go to **kwargs
bind_keywords(kw) == [f \in Parameters |-> IF f \in DOMAIN kw THEN kw[f] ELSE DefaultOf(f)]

\* get_config(): the dict of the base class updated with config
get_config(s) ==
    [name |-> PyStr("anchor_boxes_1"),
     trainable |-> PyBool(TRUE),
     img_height |-> s.img_height,
     img_width |-> s.img_width,
     this_scale |-> s.this_scale,
     next_scale |-> s.next_scale,
     aspect_ratios |-> PyList(s.aspect_ratios.items),
     two_boxes_for_ar1 |-> s.two_boxes_for_ar1,
     clip_boxes |-> s.clip_boxes,
     variances |-> PyList(s.variances.items),
     coords |-> s.coords,
     normalize_coords |-> s.normalize_coords]

----------------------------------------------------------------------------
(* keras_ssd7.build_model: the checks of its arguments                     *)

n_predictor_layers == 4

\* bool(v), as an if or an and takes it
Truthy(v) ==
    CASE v.ty = "NoneType" -> FALSE
      [] v.ty \in {"list", "tuple", "ndarray"} -> Len(v.items) > 0
      [] v.ty = "str" -> v.str # ""
      [] OTHER -> v.num # R(0)

\* The messages of build_model's raise statements, without their backquotes;
\* {} is a value the message is formatted with.
BuildMsg(l) ==
    CASE l \in {194, 198} -> "image_size must be a 3-int list/tuplethat contains image_height, image_width, image_channels respectively"
      [] l = 202 -> "All elements of image_size must be greater than zero."
      [] l = 207 -> "n_classes must be a positive int"
      [] l = 213 -> "Unexpected value for mode. Supported values are 'training', 'inference' and 'inference_fast'."
      [] l = 218 -> "Either min_scale and max_scale or scales need to be specified."
      [] l = 221 -> "It must be either scales is None, a list or a tuple"
      [] l = 223 -> "It must be either scales is None or len(scales) == {}, but len(scales) == {}."
      [] l = 228 -> "All values in scales must be greater than 0, but the passed list of scales is {}"
      [] l = 235 -> "min_scale and max_scale must be float"
      [] l = 237 -> "It must be 0 < min_scale <= max_scale, but it is min_scale = {} and max_scale = {}"
      [] l = 245 -> "two_boxes_for_ar1 must be bool"
      [] l = 250 -> "It must be either aspect_ratios_per_layer is None, a list or a tuple"
      [] l = 252 -> "If aspect_ratios_per_layer is a list/tuple, it must meet len(aspect_ratios_per_layer) == n_predictor_layers, but len(aspect_ratios_per_layer) == {} and n_predictor_layers == {}"
      [] l = 259 -> "All aspect ratios must be a list or tuple and not empty"
      [] l \in {262, 284} -> "All aspect ratios must be greater than zero."
      [] l = 277 -> "At least one of aspect_ratios_global and aspect_ratios_per_layer must not be None."
      [] l = 280 -> "aspect_ratios_global must be a list/tuple and not empty when aspect_ratios_per_layer is None"
      [] l = 298 -> "You must provide at least one step value per predictor layer."
      [] l = 304 -> "You must provide at least one offset value per predictor layer."
      [] l = 309 -> "clip_boxes must be bool"
      [] l = 313 -> "4 variance values must be passed, but {} values were received."
      [] l = 316 -> "All variances must be >0, but the variances given are {}"
      [] l = 319 -> "Unexpected value for coords. Supported values are 'minmax', 'corners' and 'centroids'."
      [] l = 322 -> "normalize_coords must be bool"

BuildRaiseAt(l) == Error("ValueError", BuildMsg(l), l)

\* the checks of image_size
CheckImageSize(a) ==
    IF ~(IsListOrTuple(a.image_size) /\ Len(a.image_size.items) = 3)
    THEN BuildRaiseAt(194)
    ELSE IF ~(\A i \in 1..3 : IsInt(a.image_size.items[i]))
    THEN BuildRaiseAt(198)
    ELSE IF \E i \in 1..3 : RLe(a.image_size.items[i].num, R(0))
    THEN BuildRaiseAt(202)
    ELSE NoError

CheckClasses(a) ==
    IF ~(IsInt(a.n_classes) /\ RLt(R(0), a.n_classes.num)) THEN BuildRaiseAt(207) ELSE NoError

CheckMode(a) ==
    IF ~(a.mode.ty = "str" /\ a.mode.str \in {"training", "inference", "inference_fast"})
    THEN BuildRaiseAt(213)
    ELSE NoError

\* np.array(v) for a list v of numbers: its elements are numpy.float64, a
\* subclass of float, if one of v's is a float, and numpy.int64, which is
\* neither an int nor a float, if all are ints
ArrayOf(v) ==
    LET floating == \E i \in 1..Len(v.items) : v.items[i].ty = "float"
    IN  [i \in 1..Len(v.items) |->
            PyVal(IF floating THEN "float" ELSE "int64", v.items[i].num, <<>>, "")]

\* np.linspace(min_scale, max_scale, n_predictor_layers + 1)
interpolated(lo, hi) ==
    LET v == linspace(lo.num, hi.num, n_predictor_layers + 1)
    IN  [i \in 1..(n_predictor_layers + 1) |-> PyVal("float", v[i], <<>>, "")]

\* the scales block: the exception it raises and the scales it assigns
resolved_scales(a) ==
    IF (a.min_scale = PyNone \/ a.max_scale = PyNone) /\ a.scales = PyNone
    THEN [raised |-> BuildRaiseAt(218), scales |-> <<>>]
    ELSE IF Truthy(a.scales)
    THEN IF ~IsListOrTuple(a.scales)
         THEN [raised |-> BuildRaiseAt(221), scales |-> <<>>]
         ELSE IF Len(a.scales.items) # n_predictor_layers + 1
         THEN [raised |-> BuildRaiseAt(223), scales |-> <<>>]
         ELSE IF \E i \in 1..Len(a.scales.items) : RLe(a.scales.items[i].num, R(0))
         THEN [raised |-> BuildRaiseAt(228), scales |-> <<>>]
         ELSE [raised |-> NoError, scales |-> ArrayOf(a.scales)]
    ELSE IF ~(IsFloat(a.min_scale) /\ IsFloat(a.max_scale))
         THEN [raised |-> BuildRaiseAt(235), scales |-> <<>>]
         ELSE IF ~(RLt(R(0), a.min_scale.num) /\ RLe(a.min_scale.num, a.max_scale.num))
         THEN [raised |-> BuildRaiseAt(237), scales |-> <<>>]
         ELSE [raised |-> NoError, scales |-> interpolated(a.min_scale, a.max_scale)]

CheckTwoBoxes(a) == IF ~IsBool(a.two_boxes_for_ar1) THEN BuildRaiseAt(245) ELSE NoError

\* the check of one element of aspect_ratios_per_layer
CheckRatios(v) ==
    IF ~(IsListOrTuple(v) /\ Len(v.items) > 0) THEN BuildRaiseAt(259)
    ELSE IF AnyNonPositive(v) THEN BuildRaiseAt(262)
    ELSE NoError

\* the first exception of a sequence of outcomes, NoError if there is none
FirstError(errors) ==
    IF \A i \in 1..Len(errors) : errors[i] = NoError THEN NoError
    ELSE errors[CHOOSE i \in 1..Len(errors) :
                    errors[i] # NoError /\ \A j \in 1..(i - 1) : errors[j] = NoError]

\* the number of boxes per cell build_model computes for the ratios v
boxes_per_cell(v, two_boxes_for_ar1) ==
    IF ContainsOne(v) /\ Truthy(two_boxes_for_ar1) THEN Len(v.items) + 1 ELSE Len(v.items)

\* the aspect_ratio block: the exception it raises, and the aspect ratios
\* and the number of boxes of every predictor layer
resolved_aspect_ratios(a) ==
    LET none == [raised |-> NoError, aspect_ratios |-> <<>>, n_boxes |-> <<>>]
        per_layer == a.aspect_ratios_per_layer
        global == a.aspect_ratios_global
    IN  IF per_layer # PyNone
        THEN IF ~IsListOrTuple(per_layer)
             THEN [none EXCEPT !.raised = BuildRaiseAt(250)]
             ELSE IF Len(per_layer.items) # n_predictor_layers
             THEN [none EXCEPT !.raised = BuildRaiseAt(252)]
             ELSE IF \E i \in 1..Len(per_layer.items) : CheckRatios(per_layer.items[i]) # NoError
             THEN [none EXCEPT !.raised =
                        FirstError([i \in 1..Len(per_layer.items) |-> CheckRatios(per_layer.items[i])])]
             ELSE [raised |-> NoError,
                   aspect_ratios |-> per_layer.items,
                   n_boxes |-> [k \in 1..Len(per_layer.items) |->
                                    boxes_per_cell(per_layer.items[k], a.two_boxes_for_ar1)]]
        ELSE IF global = PyNone
             THEN [none EXCEPT !.raised = BuildRaiseAt(277)]
             ELSE IF ~(IsListOrTuple(global) /\ Len(global.items) > 0)
             THEN [none EXCEPT !.raised = BuildRaiseAt(280)]
             ELSE IF AnyNonPositive(global)
             THEN [none EXCEPT !.raised = BuildRaiseAt(284)]
             ELSE [raised |-> NoError,
                   aspect_ratios |-> [k \in 1..n_predictor_layers |-> global],
                   n_boxes |-> [k \in 1..n_predictor_layers |->
                                    boxes_per_cell(global, a.two_boxes_for_ar1)]]

\* steps or offsets: a list or tuple with one element per predictor layer
PerLayer(v) == IsListOrTuple(v) /\ Len(v.items) = n_predictor_layers

CheckSteps(a) ==
    IF a.steps # PyNone /\ ~PerLayer(a.steps) THEN BuildRaiseAt(298) ELSE NoError

CheckOffsets(a) ==
    IF a.offsets # PyNone /\ ~PerLayer(a.offsets) THEN BuildRaiseAt(304) ELSE NoError

\* steps and offsets after their blocks: None stands for [None] * 4
resolved_per_layer(v) == IF v = PyNone THEN [k \in 1..n_predictor_layers |-> PyNone] ELSE v.items

CheckClip(a) == IF ~IsBool(a.clip_boxes) THEN BuildRaiseAt(309) ELSE NoError

CheckVariances(a) ==
    IF ~(IsListOrTuple(a.variances) /\ Len(a.variances.items) = 4)
    THEN \* the message is formatted with len(variances)
         IF HasLen(a.variances) THEN BuildRaiseAt(313)
         ELSE Error("TypeError", MsgNoLen, 313)
    ELSE IF AnyNonPositive(a.variances) THEN BuildRaiseAt(316)
    ELSE NoError

CheckCoords(a) ==
    IF ~(a.coords.ty = "str" /\ a.coords.str \in {"minmax", "centroids", "corners"})
    THEN BuildRaiseAt(319)
    ELSE NoError

CheckNormalize(a) == IF ~IsBool(a.normalize_coords) THEN BuildRaiseAt(322) ELSE NoError

\* the outcomes of the checks in the order build_model makes them
build_checks(a) ==
    <<CheckImageSize(a), CheckClasses(a), CheckMode(a), resolved_scales(a).raised,
      CheckTwoBoxes(a), resolved_aspect_ratios(a).raised, CheckSteps(a), CheckOffsets(a),
      CheckClip(a), CheckVariances(a), CheckCoords(a), CheckNormalize(a)>>

\* the position of the scales block among the checks
ScalesCheck == 4

\* the names build_model has assigned when its checks are done
resolved(a) ==
    [img_height |-> a.image_size.items[1],
     img_width |-> a.image_size.items[2],
     n_classes |-> a.n_classes.num[1] + 1,
     scales |-> resolved_scales(a).scales,
     aspect_ratios |-> resolved_aspect_ratios(a).aspect_ratios,
     n_boxes |-> resolved_aspect_ratios(a).n_boxes,
     steps |-> resolved_per_layer(a.steps),
     offsets |-> resolved_per_layer(a.offsets),
     two_boxes_for_ar1 |-> a.two_boxes_for_ar1,
     clip_boxes |-> a.clip_boxes,
     variances |-> a.variances,
     coords |-> a.coords,
     normalize_coords |-> a.normalize_coords]

----------------------------------------------------------------------------
(* keras_ssd7.build_model: the network                                     *)

\* the side n of a feature map after MaxPooling2D(pool_size=(2, 2)), padding
\* 'valid'; the convolutions, padding 'same' and strides 1, keep the side
pooled(n) == n \div 2

RECURSIVE pooled_times(_, _)
pooled_times(n, times) == IF times = 0 THEN n ELSE pooled_times(pooled(n), times - 1)

\* (height, width) of conv4 .. conv7, the inputs of predictor layer k = 1..4:
\* conv4 follows pool3, conv7 follows pool6
predictor_size(r, k) ==
    <<pooled_times(r.img_height.num[1], k + 2), pooled_times(r.img_width.num[1], k + 2)>>

\* the arguments of AnchorBoxes with the scales of the next layer
anchor_args_scale_of_next_layer(r, k) ==
    [img_height |-> r.img_height, img_width |-> r.img_width,
     this_scale |-> r.scales[k + 1], next_scale |-> r.scales[k + 1],
     aspect_ratios |-> r.aspect_ratios[k],
     two_boxes_for_ar1 |-> r.two_boxes_for_ar1,
     this_steps |-> r.steps[k], this_offsets |-> r.offsets[k],
     clip_boxes |-> r.clip_boxes, variances |-> r.variances,
     coords |-> r.coords, normalize_coords |-> r.normalize_coords]

\* the arguments of the AnchorBoxes of predictor layer k = 1..4
anchor_args(r, k) ==
    [img_height |-> r.img_height, img_width |-> r.img_width,
     this_scale |-> r.scales[k], next_scale |-> r.scales[k + 1],
     aspect_ratios |-> r.aspect_ratios[k],
     two_boxes_for_ar1 |-> r.two_boxes_for_ar1,
     this_steps |-> r.steps[k], this_offsets |-> r.offsets[k],
     clip_boxes |-> r.clip_boxes, variances |-> r.variances,
     coords |-> r.coords, normalize_coords |-> r.normalize_coords]

\* the shape of a tensor call returned, without the batch axis
anchors_shape(o) ==
    IF o = <<>> THEN <<>>
    ELSE <<Len(o[1]), Len(o[1][1]), Len(o[1][1][1]), Len(o[1][1][1][1])>>

\* K.int_shape of the output of a Conv2D of the given number of filters on
\* the input of predictor layer k, one item standing for the batch
conv_shape(r, k, filters) == <<1, predictor_size(r, k)[1], predictor_size(r, k)[2], filters>>

\* anchors = AnchorBoxes(...)(boxes) for predictor layer k: the construction,
\* then the call on the output of the boxes predictor
anchor_layer(be, r, k) ==
    CHOOSE l \in UNION {
        {[args |-> anchor_args(r, k),
          self |-> c.self,
          raised |-> c.raised,
          call_raised |-> o.raised,
          shape |-> anchors_shape(o.out)] :
            o \in {IF c.raised = NoError
                   THEN AnchorBoxes_call(c.self, call_dims("tf", conv_shape(r, k, r.n_boxes[k] * 4)))
                   ELSE [out |-> <<>>, raised |-> NoError]}} :
        c \in {AnchorBoxes_init(be, anchor_args(r, k))}} : TRUE

\* the exception layer l ended with
LayerError(l) == IF l.raised # NoError THEN l.raised ELSE l.call_raised

RECURSIVE anchor_layers(_, _, _)
\* anchors4 .. anchors7 from layer k on, up to the first that raises
anchor_layers(be, r, k) ==
    IF k > n_predictor_layers THEN <<>>
    ELSE CHOOSE ls \in {IF LayerError(l) # NoError THEN <<l>>
                        ELSE <<l>> \o anchor_layers(be, r, k + 1) :
                            l \in {anchor_layer(be, r, k)}} : TRUE

\* the rows Reshape((-1, last)) gives a tensor of the given shape (without
\* the batch axis), 0 if there is no tensor
reshaped_rows(shape, last) ==
    LET count(i) == IF i > Len(shape) THEN 1 ELSE shape[i]
    IN  IF shape = <<>> THEN 0
        ELSE (count(1) * count(2) * count(3) * count(4)) \div last

\* the outcome of build_model when a check raised e: nothing is built
not_built(a, e) ==
    [raised |-> e,
     started |-> FALSE,
     scales |-> IF FirstError(SubSeq(build_checks(a), 1, ScalesCheck)) = NoError
                THEN resolved_scales(a).scales ELSE <<>>,
     n_classes |-> 0, n_boxes |-> <<>>, sizes |-> <<>>, anchors |-> <<>>,
     classes_rows |-> <<>>, boxes_rows |-> <<>>, anchors_rows |-> <<>>]

\* the outcome of build_model with the names r and the anchor layers ls
built(r, ls) ==
    [raised |-> FirstError([i \in 1..Len(ls) |-> LayerError(ls[i])]),
     started |-> TRUE,
     scales |-> r.scales,
     n_classes |-> r.n_classes,
     n_boxes |-> r.n_boxes,
     sizes |-> [k \in 1..n_predictor_layers |-> predictor_size(r, k)],
     anchors |-> ls,
     classes_rows |-> [k \in 1..n_predictor_layers |->
                        reshaped_rows(SubSeq(conv_shape(r, k, r.n_boxes[k] * r.n_classes), 2, 4),
                                      r.n_classes)],
     boxes_rows |-> [k \in 1..n_predictor_layers |->
                        reshaped_rows(SubSeq(conv_shape(r, k, r.n_boxes[k] * 4), 2, 4), 4)],
     anchors_rows |-> [k \in 1..Len(ls) |-> reshaped_rows(ls[k].shape, 8)]]

\* build_model(**a) under backend be
build_model(be, a) ==
    IF FirstError(build_checks(a)) # NoError
    THEN not_built(a, FirstError(build_checks(a)))
    ELSE CHOOSE m \in UNION {{built(r, ls) : ls \in {anchor_layers(be, r, 1)}} :
                                r \in {resolved(a)}} : TRUE

----------------------------------------------------------------------------
(* The configurations the model constructs layers from.                    *)

\* aspect ratios whose square root is rational
Ratios == {R(1), R(4)}

RECURSIVE SeqsUpTo(_, _)
\* the sequences over S of length 1..n
SeqsUpTo(S, n) ==
    IF n = 0 THEN {}
    ELSE LET shorter == SeqsUpTo(S, n - 1)
         IN  {<<x>> : x \in S} \cup shorter \cup {Append(q, x) : q \in shorter, x \in S}

GoodVariances == <<Q(1, 10), Q(1, 5), Q(3, 10), Q(2, 5)>>

\* this_steps and this_offsets of the geometry configurations: each of None,
\* a number and a pair
StepsOffsets ==
    {<<PyNone, PyNone>>,
     <<PyFloat(5, 2), PyNone>>,
     <<PyTuple(<<R(2), R(4)>>), PyFloat(1, 5)>>,
     <<PyNone, PyList(<<Q(1, 2), Q(3, 4)>>)>>}

\* A configuration of a 4 x 5 image with scales 0.25 and 1.0
GeometryConfiguration(q, two, so, clip, co, norm) ==
    [img_height |-> PyInt(4), img_width |-> PyInt(5),
     this_scale |-> PyFloat(1, 4), next_scale |-> PyFloat(1, 1),
     aspect_ratios |-> PyList(q),
     two_boxes_for_ar1 |-> PyBool(two),
     this_steps |-> so[1], this_offsets |-> so[2],
     clip_boxes |-> PyBool(clip),
     variances |-> PyList(GoodVariances),
     coords |-> PyStr(co),
     normalize_coords |-> PyBool(norm)]

\* Configurations that differ in the boxes they lay out: every list of
\* aspect ratios, the boxes left as laid out.
LayoutArgs ==
    {GeometryConfiguration(q, two, so, FALSE, "centroids", FALSE) :
        q \in SeqsUpTo(Ratios, MaxLen), two \in BOOLEAN, so \in StepsOffsets}

\* Configurations that differ in what is done to the boxes laid out: every
\* combination of clipping, normalizing and output format, on the ratios 1
\* and 4, which give boxes of all the three shapes.
OutputArgs ==
    {GeometryConfiguration(<<R(1), R(4)>>, two, so, clip, co, norm) :
        two \in BOOLEAN, so \in StepsOffsets, clip \in BOOLEAN,
        co \in {"centroids", "corners", "minmax"}, norm \in BOOLEAN}

\* Configurations that differ in what decides the geometry.
GeometryArgs == LayoutArgs \cup OutputArgs

\* Configurations that differ in which of the constructor's checks they pass.
ValidationArgs ==
    {[img_height |-> dims[1], img_width |-> dims[2],
      this_scale |-> scales[1], next_scale |-> scales[2],
      aspect_ratios |-> ar,
      two_boxes_for_ar1 |-> flags[1],
      this_steps |-> steps, this_offsets |-> offsets,
      clip_boxes |-> flags[2],
      variances |-> var,
      coords |-> co,
      normalize_coords |-> flags[3]] :
        dims \in {<<PyInt(4), PyInt(6)>>, <<PyInt(0), PyInt(6)>>,
                  <<PyInt(4), PyInt(-1)>>, <<PyFloat(4, 1), PyInt(6)>>},
        scales \in {<<PyFloat(1, 4), PyFloat(1, 1)>>, <<PyFloat(0, 1), PyFloat(1, 1)>>,
                    <<PyFloat(1, 4), PyFloat(-1, 4)>>, <<PyInt(1), PyFloat(1, 1)>>},
        ar \in {PyList(<<R(1), R(4)>>), PyList(<<>>), PyTuple(<<R(1), R(0)>>), PyFloat(1, 1)},
        flags \in {<<PyBool(TRUE), PyBool(TRUE), PyBool(FALSE)>>,
                   <<PyInt(1), PyBool(TRUE), PyBool(FALSE)>>,
                   <<PyBool(TRUE), PyNone, PyBool(FALSE)>>,
                   <<PyBool(TRUE), PyBool(TRUE), PyStr("no")>>},
        steps \in {PyNone, PyStr("8"), PyTuple(<<R(2), R(3), R(4)>>)},
        offsets \in {PyNone, PyList(<<Q(1, 2)>>)},
        var \in {PyTuple(GoodVariances), PyList(<<Q(1, 10), Q(1, 10), Q(1, 5)>>),
                 PyList(<<Q(1, 10), Q(1, 10), R(0), Q(1, 5)>>), PyFloat(1, 10)},
        co \in {PyStr("corners"), PyStr("xywh")}}

\* The reference scenario: a 300 x 300 image, scales 0.2 and 0.34, aspect
\* ratios 1 and 2
ReferenceArgs ==
    [img_height |-> PyInt(300), img_width |-> PyInt(300),
     this_scale |-> PyFloat(1, 5), next_scale |-> PyFloat(17, 50),
     aspect_ratios |-> PyList(<<R(1), R(2)>>),
     two_boxes_for_ar1 |-> PyBool(TRUE),
     this_steps |-> PyNone, this_offsets |-> PyNone,
     clip_boxes |-> PyBool(FALSE),
     variances |-> PyList(GoodVariances),
     coords |-> PyStr("centroids"),
     normalize_coords |-> PyBool(FALSE)]

Configurations == GeometryArgs \cup ValidationArgs \cup {ReferenceArgs}

Backends == {"tensorflow", "theano"}

\* K.int_shape(x) of the inputs: (batch, height, width, channels)
InputShapes == {<<2, h, w, 8>> : h \in 1..MaxGrid, w \in 1..MaxGrid}

\* the 10 x 10 feature map of the reference scenario
ReferenceShape == <<2, 10, 10, 8>>

\* the input shapes a layer of configuration a is called with
InputShapesOf(a) == IF a = ReferenceArgs THEN InputShapes \cup {ReferenceShape} ELSE InputShapes

\* the arguments build_model is called with: its defaults on a 64 x 64 image
\* with 2 classes
DefaultBuildArgs ==
    [image_size |-> PyTuple(<<PyInt(64), PyInt(64), PyInt(3)>>),
     n_classes |-> PyInt(2),
     mode |-> PyStr("training"),
     min_scale |-> PyFloat(1, 10),
     max_scale |-> PyFloat(9, 10),
     scales |-> PyNone,
     aspect_ratios_global |-> PyTuple(<<Q(1, 2), R(1), R(2)>>),
     aspect_ratios_per_layer |-> PyNone,
     two_boxes_for_ar1 |-> PyBool(TRUE),
     steps |-> PyNone,
     offsets |-> PyNone,
     clip_boxes |-> PyBool(FALSE),
     variances |-> PyTuple(<<R(1), R(1), R(1), R(1)>>),
     coords |-> PyStr("centroids"),
     normalize_coords |-> PyBool(FALSE)]

\* the values passed as scales
ScalesPassed ==
    {PyNone,
     PyList(<<PyFloat(1, 10), PyFloat(1, 5), PyFloat(2, 5), PyFloat(3, 5), PyFloat(4, 5)>>),
     PyTuple(<<PyFloat(1, 4), PyFloat(1, 4), PyFloat(1, 2), PyFloat(1, 2), PyFloat(1, 1)>>),
     PyList(<<PyInt(1), PyFloat(1, 2), PyInt(1), PyFloat(1, 2), PyInt(1)>>),
     PyList(<<PyInt(1), PyInt(1), PyInt(1), PyInt(1), PyInt(1)>>),
     PyList(<<>>),
     PyTuple(<<>>),
     PyList(<<PyFloat(1, 10), PyFloat(1, 5), PyFloat(2, 5), PyFloat(3, 5)>>),
     PyList(<<PyFloat(1, 10), PyFloat(1, 5), PyFloat(0, 1), PyFloat(3, 5), PyFloat(4, 5)>>),
     PyFloat(1, 2)}

\* the values passed as min_scale and max_scale
ScaleRanges ==
    {<<PyFloat(1, 10), PyFloat(9, 10)>>, <<PyFloat(1, 5), PyFloat(1, 5)>>,
     <<PyNone, PyNone>>, <<PyFloat(1, 2), PyFloat(1, 5)>>, <<PyInt(1), PyFloat(9, 10)>>,
     <<PyFloat(0, 1), PyFloat(9, 10)>>}

\* Arguments that differ in the scales.
ScaleArgs ==
    {[DefaultBuildArgs EXCEPT !.scales = s, !.min_scale = range[1], !.max_scale = range[2],
                              !.aspect_ratios_global = PyList(<<R(1), R(4)>>)] :
        s \in ScalesPassed, range \in ScaleRanges}

\* one list of aspect ratios per predictor layer, each of its own length
RatiosPerLayer == PyList(<<PyList(<<R(1), R(4)>>), PyTuple(<<R(4)>>), PyList(<<R(1)>>),
                           PyList(<<R(4), Q(1, 4), R(1)>>)>>)

\* Arguments that differ in the aspect ratios.
RatioArgs ==
    {[DefaultBuildArgs EXCEPT !.aspect_ratios_global = g, !.aspect_ratios_per_layer = p,
                              !.two_boxes_for_ar1 = two] :
        g \in {PyTuple(<<Q(1, 2), R(1), R(2)>>), PyList(<<R(1), R(4)>>), PyList(<<R(1), R(1)>>),
               PyList(<<>>), PyList(<<R(1), R(0)>>), PyFloat(1, 1), PyNone},
        p \in {PyNone, RatiosPerLayer,
               PyList(<<PyList(<<R(1)>>), PyList(<<R(4)>>), PyList(<<R(1)>>)>>),
               PyList(<<PyList(<<R(1)>>), PyList(<<>>), PyList(<<R(0)>>), PyList(<<R(1)>>)>>),
               PyList(<<PyList(<<R(1)>>), PyList(<<R(4), R(-1)>>), PyFloat(1, 1), PyList(<<R(1)>>)>>),
               PyList(<<PyList(<<R(4)>>), PyList(<<R(4)>>), PyList(<<R(1), R(4), R(1)>>),
                        PyList(<<R(1)>>)>>),
               PyFloat(1, 1)},
        two \in {PyBool(TRUE), PyBool(FALSE), PyInt(1)}}

\* Arguments that differ in the steps and offsets.
StepArgs ==
    {[DefaultBuildArgs EXCEPT !.aspect_ratios_per_layer = RatiosPerLayer,
                              !.steps = st, !.offsets = off, !.scales = s] :
        st \in {PyNone,
                PyList(<<PyInt(8), PyInt(16), PyInt(32), PyInt(64)>>),
                PyTuple(<<PyFloat(5, 2), PyNone, PyTuple(<<R(2), R(4)>>), PyInt(8)>>),
                PyList(<<PyInt(8), PyStr("16"), PyInt(32), PyInt(64)>>),
                PyList(<<PyInt(8), PyInt(16), PyInt(32)>>),
                PyInt(8)},
        off \in {PyNone,
                 PyList(<<PyFloat(1, 2), PyNone, PyFloat(1, 4), PyTuple(<<Q(1, 2), Q(3, 4)>>)>>),
                 PyList(<<PyFloat(1, 2), PyFloat(1, 2), PyFloat(1, 2),
                          PyTuple(<<Q(1, 2), Q(1, 2), Q(1, 2)>>)>>),
                 PyList(<<PyFloat(1, 2)>>)},
        s \in {PyNone,
               PyList(<<PyFloat(1, 10), PyFloat(1, 5), PyFloat(2, 5), PyFloat(3, 5), PyFloat(4, 5)>>)}}

\* Arguments that differ in which of the other checks they pass.
CheckArgs ==
    {[DefaultBuildArgs EXCEPT !.image_size = dims, !.n_classes = n, !.mode = PyStr(mode),
                              !.clip_boxes = flags[1], !.normalize_coords = flags[2],
                              !.variances = var, !.coords = co] :
        dims \in {PyTuple(<<PyInt(64), PyInt(64), PyInt(3)>>),
                  PyList(<<PyInt(64), PyInt(128), PyInt(1)>>),
                  PyTuple(<<PyInt(64), PyInt(64)>>),
                  PyTuple(<<PyFloat(64, 1), PyInt(64), PyInt(3)>>),
                  PyTuple(<<PyInt(64), PyInt(0), PyInt(3)>>),
                  PyInt(64)},
        n \in {PyInt(2), PyInt(0), PyFloat(2, 1)},
        mode \in {"training", "inference", "test"},
        flags \in {<<PyBool(TRUE), PyBool(TRUE)>>, <<PyNone, PyBool(TRUE)>>,
                   <<PyBool(FALSE), PyStr("no")>>},
        var \in {PyTuple(<<R(1), R(1), R(1), R(1)>>), PyList(GoodVariances),
                 PyList(<<Q(1, 10), Q(1, 10), Q(1, 5)>>),
                 PyList(<<Q(1, 10), Q(1, 10), R(0), Q(1, 5)>>), PyFloat(1, 10)},
        co \in {PyStr("corners"), PyStr("minmax"), PyStr("xywh")}}

BuildConfigurations == ScaleArgs \cup RatioArgs \cup StepArgs \cup CheckArgs

----------------------------------------------------------------------------
(* The state machine.                                                      *)

Init ==
    /\ pc = "start"
    /\ backend \in Backends
    /\ args = NoSelf
    /\ self = NoSelf
    /\ raised = NoError
    /\ layer = NoLayer
    /\ x_shape = <<>>
    /\ dim_ordering = ""
    /\ out = <<>>
    /\ call_raised = NoError
    /\ reported = <<>>
    /\ first = [out |-> <<>>, raised |-> NoError]
    /\ calls = 0
    /\ config = <<>>
    /\ restored = Outcome(NoSelf, NoError)
    /\ build_args = <<>>
    /\ model = <<>>

\* layer = AnchorBoxes(...) with the arguments a, for some configuration a
Construct ==
    /\ pc = "start"
    /\ \E a \in Configurations :
        \E r \in {AnchorBoxes_init(backend, a)} :
            /\ args' = a
            /\ self' = r.self
            /\ raised' = r.raised
            /\ layer' = bound_layer(r)
            /\ pc' = IF r.raised = NoError THEN "constructed" ELSE "failed"
    /\ UNCHANGED <<backend, x_shape, dim_ordering, out, call_raised, reported, first, calls>>
    /\ UNCHANGED <<config, restored, build_args, model>>

\* layer(x): Layer.__call__ runs call(x) and compute_output_shape on the
\* shape of x, under the dim ordering set at that time.  The first call is on
\* an input of any shape, a further call on an input of the same shape.
Call ==
    /\ pc = "constructed"
    /\ calls < MaxCalls
    /\ calls' = calls + 1
    /\ \E xs \in (IF x_shape = <<>> THEN InputShapesOf(args) ELSE {x_shape}) :
        \E o \in DimOrderings :
            \E r \in {AnchorBoxes_call(self, call_dims(o, xs))} :
                /\ out' = r.out
                /\ call_raised' = r.raised
                /\ x_shape' = xs
                /\ dim_ordering' = o
                /\ self' = attributes_after_call(self, xs)
                /\ reported' = compute_output_shape(self, o, xs)
                /\ first' = IF x_shape = <<>> THEN r ELSE first
    /\ UNCHANGED <<pc, backend, args, raised, layer>>
    /\ UNCHANGED <<config, restored, build_args, model>>

Next == Construct \/ Call

\* config = layer.get_config() and the construction from config, as Keras does when
\* it saves and loads a model
GetConfig ==
    /\ pc = "constructed"
    /\ \E c \in {get_config(self)} :
        \E r \in {AnchorBoxes_init(backend, bind_keywords(c))} :
            /\ config' = c
            /\ restored' = r
    /\ pc' = "restored"
    /\ UNCHANGED <<backend, args, self, raised, layer, x_shape, dim_ordering, out,
                   call_raised, reported, first, calls, build_args, model>>

ConfigNext == Construct \/ GetConfig

Spec == Init /\ [][Next]_vars

\* a layer is constructed, then saved and restored
ConfigSpec == Init /\ [][ConfigNext]_vars

\* model = build_model(...) with the arguments a, for some a: the checks,
\* then the network with its four anchor layers
BuildModel ==
    /\ pc = "start"
    /\ \E a \in BuildConfigurations :
        \E m \in {build_model(backend, a)} :
            /\ build_args' = a
            /\ model' = m
            /\ pc' = IF m.raised = NoError THEN "built" ELSE "build_failed"
    /\ UNCHANGED <<backend, args, self, raised, layer, x_shape, dim_ordering, out,
                   call_raised, reported, first, calls, config, restored>>

BuildNext == BuildModel

\* a model is built
BuildSpec == Init /\ [][BuildNext]_vars

----------------------------------------------------------------------------
(* Vocabulary of the properties.                                           *)

Constructed == pc = "constructed"
Failed == pc = "failed"
\* a call has been made
Called == x_shape # <<>>
\* and it returned a tensor
Returned == Called /\ call_raised = NoError /\ out # <<>>

IsTrue(v) == v = PyBool(TRUE)

\* T is an array of shape (h, w, n, m)
HasShape(T, h, w, n, m) ==
    /\ Len(T) = h
    /\ \A row \in 1..Len(T) :
        /\ Len(T[row]) = w
        /\ \A col \in 1..Len(T[row]) :
            /\ Len(T[row][col]) = n
            /\ \A k \in 1..Len(T[row][col]) : Len(T[row][col][k]) = m

\* the positions (batch item, row, column, box index) of the returned tensor
Positions == (1..Len(out)) \X (1..x_shape[2]) \X (1..x_shape[3]) \X (1..self.n_boxes.num[1])
OutBox(p) == out[p[1]][p[2]][p[3]][p[4]]

\* the box count of the data model: len(aspect_ratios) + 1 if 1 is among the
\* ratios and two_boxes_for_ar1 is set, len(aspect_ratios) otherwise
ClaimedBoxCount ==
    Len(args.aspect_ratios.items)
      + (IF IsTrue(args.two_boxes_for_ar1) /\ (\E i \in DOMAIN args.aspect_ratios.items :
                                                  args.aspect_ratios.items[i] = R(1))
         THEN 1 ELSE 0)

----------------------------------------------------------------------------
(* C1: for every configuration the constructor accepts and every grid size *)
(* (h, w), call produces a tensor whose every batch item has shape         *)
(* (h, w, n_boxes, 8), n_boxes being len(aspect_ratios) + 1 if 1 is among  *)
(* the ratios and two_boxes_for_ar1 is set, and len(aspect_ratios)         *)
(* otherwise.                                                              *)
C1_OutputShape ==
    Called =>
        /\ out # <<>>
        /\ \A b \in 1..Len(out) :
            HasShape(out[b], x_shape[2], x_shape[3], ClaimedBoxCount, 8)

(* C2: once construction has succeeded call raises no error: the shape     *)
(* list built from aspect_ratios has exactly n_boxes entries.              *)
C2_CallNeverRaises ==
    /\ Constructed => Len(wh_list(self)) = self.n_boxes.num[1]
    /\ Called => call_raised = NoError

\* the corner representation (xmin, ymin, xmax, ymax) of an output box
OutCorners(b) ==
    IF args.coords.str = "centroids" THEN centroids2corners(SubSeq(b, 1, 4))
    ELSE IF args.coords.str = "minmax" THEN <<b[1], b[3], b[2], b[4]>>
    ELSE SubSeq(b, 1, 4)

Between(lo, v, hi) == RLe(lo, v) /\ RLe(v, hi)

(* C3: with clip_boxes set and normalize_coords not set, xmin and xmax of  *)
(* every output box lie in [0, img_width - 1] and ymin and ymax in         *)
(* [0, img_height - 1].                                                    *)
C3_ClippedInsideImage ==
    (Returned /\ IsTrue(args.clip_boxes) /\ ~IsTrue(args.normalize_coords)) =>
        \A p \in Positions :
            LET c == OutCorners(OutBox(p))
                xmax == RSub(args.img_width.num, R(1))
                ymax == RSub(args.img_height.num, R(1))
            IN  /\ Between(R(0), c[1], xmax) /\ Between(R(0), c[3], xmax)
                /\ Between(R(0), c[2], ymax) /\ Between(R(0), c[4], ymax)

(* C4: with normalize_coords and clip_boxes set, each of the four          *)
(* coordinate channels of every output box lies in [0, 1], in each of the  *)
(* three output formats.                                                   *)
C4_NormalizedInUnitInterval ==
    (Returned /\ IsTrue(args.clip_boxes) /\ IsTrue(args.normalize_coords)) =>
        \A p \in Positions : \A ch \in 1..4 : Between(R(0), OutBox(p)[ch], R(1))

(* C5: channels 4..7 of the anchor tensor (the fifth to eighth value of    *)
(* every box) are the four configured variances in the configured order,   *)
(* at every position and whatever the coordinates and the flags are.       *)
C5_VarianceChannels ==
    Returned => \A p \in Positions : SubSeq(OutBox(p), 5, 8) = args.variances.items

\* a 2 x 2 grid of several clipped, normalized boxes, the variances all different
C5_Witness ==
    /\ Returned
    /\ x_shape[2] = 2 /\ x_shape[3] = 2 /\ self.n_boxes.num[1] >= 2
    /\ IsTrue(args.clip_boxes) /\ IsTrue(args.normalize_coords)
    /\ \A i, j \in 1..4 : i # j => args.variances.items[i] # args.variances.items[j]
    /\ \E p \in Positions : SubSeq(OutBox(p), 1, 4) # SubSeq(OutBox(p), 5, 8)

\* every box of the corners tensor T clipped and normalized
clipped(s, T) ==
    [row \in 1..Len(T) |-> [col \in 1..Len(T[row]) |->
        [k \in 1..Len(T[row][col]) |-> normalize_box(s, clip_box(s, T[row][col][k]))]]]

\* the corner boxes call has after clipping and normalizing
clipped_corners(s, xs) == CHOOSE C \in {clipped(s, T) : T \in {boxes_corners(s, xs)}} : TRUE

BoxesOf(T) ==
    {T[row][col][k] : row \in 1..Len(T), col \in 1..Len(T[1]), k \in 1..Len(T[1][1])}

(* C6: corners -> centroids ('half') -> corners gives back every corner    *)
(* box of positive width and height; and with clip_boxes and               *)
(* normalize_coords off and coords 'centroids' the output coordinates are  *)
(* the (cx, cy, w, h) laid out before the conversion to corners.           *)
C6_RoundTrip ==
    Returned =>
        /\ \A T \in {boxes_corners(self, x_shape), clipped_corners(self, x_shape)} :
            \A c \in BoxesOf(T) :
                (RLt(c[1], c[3]) /\ RLt(c[2], c[4])) => centroids2corners(corners2centroids(c)) = c
        /\ (~IsTrue(args.clip_boxes) /\ ~IsTrue(args.normalize_coords)
                /\ args.coords.str = "centroids") =>
            \A xc \in {cx(self, x_shape)}, ys \in {cy(self, x_shape)}, wh \in {wh_list(self)} :
                \A p \in Positions :
                    SubSeq(OutBox(p), 1, 4) = <<xc[p[3]], ys[p[2]], wh[p[4]][1], wh[p[4]][2]>>

\* unclipped centroids output on a 2 x 2 grid with boxes that differ in shape
C6_Witness ==
    /\ Returned
    /\ ~IsTrue(args.clip_boxes) /\ ~IsTrue(args.normalize_coords)
    /\ args.coords.str = "centroids"
    /\ x_shape[2] = 2 /\ x_shape[3] = 2
    /\ \E p \in Positions : OutBox(p)[3] # OutBox(p)[4]
    /\ \E p \in Positions : OutBox(p)[1] # OutBox(p)[2]

\* v is the square root of p as np.sqrt gives it: the root itself where it is
\* rational, otherwise the multiple of 1 / SqrtGrid(p) next below it
IsRootOf(v, p) ==
    /\ RLe(R(0), v)
    /\ IF IsSquare(p[1]) /\ IsSquare(p[2]) THEN RMul(v, v) = p
       ELSE LET up == RAdd(v, Q(1, SqrtGrid(p)))
            IN  RLe(RMul(v, v), p) /\ RLt(p, RMul(up, up))

\* the index in the shape list of the first entry of the i-th aspect ratio
FirstEntry(ar, two, i) ==
    i + (IF two THEN Cardinality({j \in 1..(i - 1) : ar[j] = R(1)}) ELSE 0)

(* C7: the shape list walks aspect_ratios in order with                    *)
(* side = min(img_height, img_width): a ratio 1 gives the square of side   *)
(* this_scale*side and, with two_boxes_for_ar1, right after it one square  *)
(* of side sqrt(this_scale*next_scale)*side; a ratio r # 1 gives           *)
(* (this_scale*side*sqrt(r), this_scale*side/sqrt(r)); the boxes of the    *)
(* output follow that order.                                               *)
C7_ShapeList ==
    Constructed =>
        LET ar == args.aspect_ratios.items
            two == IsTrue(args.two_boxes_for_ar1)
            side == IF RLe(args.img_height.num, args.img_width.num)
                    THEN args.img_height.num ELSE args.img_width.num
            base == RMul(args.this_scale.num, side)
            wh == wh_list(self)
        IN  /\ Len(wh) = Len(ar) + (IF two THEN Cardinality({j \in 1..Len(ar) : ar[j] = R(1)}) ELSE 0)
            /\ \A i \in 1..Len(ar) :
                LET k == FirstEntry(ar, two, i) IN
                IF ar[i] = R(1)
                THEN /\ wh[k] = <<base, base>>
                     /\ two => /\ wh[k + 1][1] = wh[k + 1][2]
                               /\ IsRootOf(RDiv(wh[k + 1][1], side),
                                           RMul(args.this_scale.num, args.next_scale.num))
                ELSE /\ RLt(R(0), wh[k][1]) /\ RLt(R(0), wh[k][2])
                     /\ IsRootOf(RDiv(wh[k][1], base), ar[i])
                     /\ IsRootOf(RDiv(base, wh[k][2]), ar[i])
            /\ (Returned /\ ~IsTrue(args.clip_boxes) /\ ~IsTrue(args.normalize_coords)) =>
                \A p \in Positions :
                    LET c == OutCorners(OutBox(p))
                    IN  <<RSub(c[3], c[1]), RSub(c[4], c[2])>> = wh[p[4]]

\* ratios 1 and 4 with two boxes for ratio 1, laid out unclipped
C7_Witness ==
    /\ Returned
    /\ args.aspect_ratios.items = <<R(1), R(4)>>
    /\ IsTrue(args.two_boxes_for_ar1)
    /\ ~IsTrue(args.clip_boxes) /\ ~IsTrue(args.normalize_coords)
    /\ Len(wh_list(self)) = 3
    /\ wh_list(self)[2] # wh_list(self)[1]
    /\ wh_list(self)[3][1] # wh_list(self)[3][2]

----------------------------------------------------------------------------
(* The cases of an invalid configuration.                                  *)

PositiveInt(v) == v.ty = "int" /\ RLt(R(0), v.num)
BadImageSize == ~(PositiveInt(args.img_height) /\ PositiveInt(args.img_width))
NotPositive(v) == IsNumber(v) /\ RLe(v.num, R(0))
BadScale == NotPositive(args.this_scale) \/ NotPositive(args.next_scale)
BadRatios ==
    /\ IsListOrTuple(args.aspect_ratios)
    /\ \/ args.aspect_ratios.items = <<>>
       \/ \E i \in DOMAIN args.aspect_ratios.items : RLe(args.aspect_ratios.items[i], R(0))
BadVariances ==
    ~(/\ Len(args.variances.items) = 4
      /\ \A i \in DOMAIN args.variances.items : RLt(R(0), args.variances.items[i]))
BadCoords == args.coords.str \notin {"centroids", "corners", "minmax"}
NeitherScalarNorPair(v) ==
    /\ v.ty # "NoneType"
    /\ v.ty \notin {"int", "float"}
    /\ ~(v.ty \in {"list", "tuple"} /\ Len(v.items) = 2)
BadSteps == NeitherScalarNorPair(args.this_steps)
BadOffsets == NeitherScalarNorPair(args.this_offsets)

InvalidConfiguration ==
    BadImageSize \/ BadScale \/ BadRatios \/ BadVariances \/ BadCoords \/ BadSteps \/ BadOffsets

(* C8: under the TensorFlow backend, the one the layer supports,           *)
(* construction fails with the configuration error (ValueError) and        *)
(* yields no instance whenever the image height or width is not a positive *)
(* integer, a scale is zero or negative, aspect_ratios is empty or has a   *)
(* value <= 0, variances is not exactly 4 positive entries, coords is not  *)
(* a known format, or this_steps or this_offsets is given and is neither a *)
(* scalar nor a pair.                                                      *)
C8_InvalidConfigurationRejected ==
    (pc # "start" /\ backend = "tensorflow" /\ InvalidConfiguration) =>
        (Failed /\ raised.cls = "ValueError")

(* C9: every failure of construction is reported with the same error class *)
(* (ValueError), whichever check fails and whatever the type of the        *)
(* offending argument, and call never raises an error of that class.       *)
C9_SingleErrorClass ==
    /\ Failed => raised.cls = "ValueError"
    /\ Called => call_raised.cls # "ValueError"

\* what the check before the raise statement at line l tests: the parameters
\* and the requirement
CheckedAt(l) ==
    CASE l = 106 -> [params |-> {"backend"}, requires |-> "tensorflow"]
      [] l = 111 -> [params |-> {"img_height", "img_width"}, requires |-> "int"]
      [] l = 113 -> [params |-> {"img_height", "img_width"}, requires |-> "> 0"]
      [] l = 119 -> [params |-> {"this_scale", "next_scale"}, requires |-> "float"]
      [] l = 121 -> [params |-> {"this_scale", "next_scale"}, requires |-> "> 0"]
      [] l = 129 -> [params |-> {"aspect_ratios"}, requires |-> "non-empty list or tuple"]
      [] l = 132 -> [params |-> {"aspect_ratios"}, requires |-> "> 0"]
      [] l = 138 -> [params |-> {"variances"}, requires |-> "4 values"]
      [] l = 142 -> [params |-> {"variances"}, requires |-> "> 0"]
      [] l = 147 -> [params |-> {"coords"}, requires |-> "minmax, corners or centroids"]
      [] l = 154 -> [params |-> {"this_steps"}, requires |-> "pair or number"]
      [] l = 163 -> [params |-> {"this_offsets"}, requires |-> "pair or number"]
      [] l = 170 -> [params |-> {"two_boxes_for_ar1"}, requires |-> "bool"]
      [] l = 175 -> [params |-> {"clip_boxes"}, requires |-> "bool"]
      [] l = 180 -> [params |-> {"normalize_coords"}, requires |-> "bool"]

\* what the text of a message says: the parameters it names and the
\* requirement it states
SaidBy(m) ==
    CASE m = MsgBackend -> [params |-> {"backend"}, requires |-> "tensorflow"]
      [] m = MsgImgType -> [params |-> {"img_height", "img_width"}, requires |-> "float"]
      [] m = MsgImgRange -> [params |-> {"img_height", "img_width"}, requires |-> "> 0"]
      [] m = MsgScaleType -> [params |-> {"this_scale", "next_scale"}, requires |-> "float"]
      [] m = MsgScaleRange -> [params |-> {"this_scale", "next_scale"}, requires |-> "> 0"]
      [] m = MsgRatiosType -> [params |-> {"aspect_ratios"}, requires |-> "non-empty list or tuple"]
      [] m = MsgRatiosRange -> [params |-> {"aspect_ratios"}, requires |-> "> 0"]
      [] m = MsgVarLen -> [params |-> {"variances"}, requires |-> "4 values"]
      [] m = MsgVarRange -> [params |-> {"variances"}, requires |-> "> 0"]
      [] m = MsgCoords -> [params |-> {"coords"}, requires |-> "minmax, corners or centroids"]
      [] m = MsgSteps -> [params |-> {"this_steps"}, requires |-> "pair or number"]
      [] m = MsgTwoBoxes -> [params |-> {"two_boxes_for_ar1"}, requires |-> "bool"]
      [] m = MsgClip -> [params |-> {"clip_boxes"}, requires |-> "bool"]
      [] m = MsgNormalize -> [params |-> {"normalize_coords"}, requires |-> "bool"]
      [] OTHER -> [params |-> {}, requires |-> ""]

(* C10: each check of the constructor has its own error message, distinct  *)
(* from the message of every other check, and the message names the        *)
(* parameter that failed and states the requirement it violated.           *)
C10_DistinctMessages ==
    Failed =>
        /\ \A l \in RaiseLines \ {raised.line} : RaiseAt(l).msg # raised.msg
        /\ SaidBy(raised.msg) = CheckedAt(raised.line)

----------------------------------------------------------------------------
(* The reference scenario.                                                 *)

InReferenceScenario == Returned /\ args = ReferenceArgs /\ x_shape = ReferenceShape

(* C11: in the reference scenario (image 300 x 300, scales 0.2 and 0.34,    *)
(* aspect ratios [1, 2], two boxes for ratio 1, grid 10 x 10, no step, no  *)
(* offset, no clipping, no normalizing, centroids) n_boxes is 3, both      *)
(* steps are 30, the row and column centres are 15, 45, ..., 285, box 0 is *)
(* 60 x 60 at every cell, box 1 is a square of side sqrt(0.2 * 0.34) * 300 *)
(* and box 2 has width 60 * sqrt(2) and height 60 / sqrt(2).               *)
C11_ReferenceScenario ==
    InReferenceScenario =>
        /\ self.n_boxes = PyInt(3)
        /\ step_height(self, x_shape) = R(30) /\ step_width(self, x_shape) = R(30)
        /\ cy(self, x_shape) = [i \in 1..10 |-> R(30 * i - 15)]
        /\ cx(self, x_shape) = [i \in 1..10 |-> R(30 * i - 15)]
        /\ \A p \in Positions :
            LET b == OutBox(p) IN
            /\ b[1] = R(30 * p[3] - 15) /\ b[2] = R(30 * p[2] - 15)
            /\ p[4] = 1 => (b[3] = R(60) /\ b[4] = R(60))
            /\ p[4] = 2 => (b[3] = b[4] /\ IsRootOf(RDiv(b[3], R(300)), Q(17, 250)))
            /\ p[4] = 3 => (/\ RLt(R(0), b[4])
                            /\ IsRootOf(RDiv(b[3], R(60)), R(2))
                            /\ IsRootOf(RDiv(R(60), b[4]), R(2)))

\* the reference scenario has run: the last cell's third box is centred on 285
C11_Witness ==
    /\ InReferenceScenario
    /\ Len(out[1]) = 10 /\ Len(out[1][10]) = 10 /\ Len(out[1][10][10]) = 3
    /\ out[1][10][10][3][1] = R(285) /\ out[1][10][10][3][2] = R(285)
    /\ out[1][1][1][1][1] = R(15)

----------------------------------------------------------------------------
(* The output tensor and the input's layout.                               *)

\* the shape of a 5-D array
ShapeOf(T) == <<Len(T), Len(T[1]), Len(T[1][1]), Len(T[1][1][1]), Len(T[1][1][1][1])>>

\* the height and width of the input in the layout of the dim ordering:
\* (batch, height, width, channels) for 'tf', (batch, channels, height,
\* width) for 'th'
GridHeight == IF dim_ordering = "tf" THEN x_shape[2] ELSE x_shape[3]
GridWidth == IF dim_ordering = "tf" THEN x_shape[3] ELSE x_shape[4]

(* C12: the output is a 5-D tensor of shape (batch, grid_height,           *)
(* grid_width, n_boxes, 8) with the batch size of the input, every batch   *)
(* item is the same 4-D anchor tensor, and compute_output_shape reports    *)
(* that shape.                                                             *)
C12_BatchedOutputShape ==
    Returned =>
        /\ ShapeOf(out) = <<x_shape[1], GridHeight, GridWidth, self.n_boxes.num[1], 8>>
        /\ \A b \in 1..Len(out) : out[b] = out[1]
        /\ reported = ShapeOf(out)

C14_DimOrdering ==
    Returned =>
        /\ ShapeOf(out)[2] = GridHeight /\ ShapeOf(out)[3] = GridWidth
        /\ reported[2] = ShapeOf(out)[2] /\ reported[3] = ShapeOf(out)[3]

----------------------------------------------------------------------------
(* Construction is all or nothing.                                         *)

(* C15: either every check passes and the caller receives an instance      *)
(* holding all configuration fields and n_boxes, or an error is raised and *)
(* the caller receives no instance: fields assigned before the failing     *)
(* check are not observable.                                               *)
C15_AllOrNothing ==
    /\ Constructed =>
        /\ raised = NoError
        /\ layer.bound
        /\ \A f \in Fields : layer.obj[f] # Unset
        /\ \A f \in Fields \ {"n_boxes", "variances"} : layer.obj[f] = args[f]
        /\ layer.obj.variances.items = args.variances.items
    /\ Failed => (raised # NoError /\ layer = NoLayer)

\* __init__ raised after it had assigned some of the fields
C15_Witness ==
    /\ Failed
    /\ raised.line = 154
    /\ self.img_height # Unset /\ self.coords # Unset
    /\ self.this_steps = Unset /\ self.n_boxes = Unset
    /\ layer = NoLayer

----------------------------------------------------------------------------
(* The clip step.                                                          *)

\* the corner coordinates of an output box before normalizing
Denormalized(c) ==
    IF IsTrue(args.normalize_coords)
    THEN <<RMul(c[1], args.img_width.num), RMul(c[2], args.img_height.num),
           RMul(c[3], args.img_width.num), RMul(c[4], args.img_height.num)>>
    ELSE c

\* a value >= bound becomes bound - 1, a negative value 0, any other stays
ClipAsStated(v, bound) ==
    IF RGe(v, bound) THEN RSub(bound, R(1))
    ELSE IF RLt(v, R(0)) THEN R(0)
    ELSE v

(* C16: with clip_boxes set the clip step replaces every x >= img_width by *)
(* img_width - 1 and every negative x by 0 and leaves every other x as it  *)
(* is, and likewise every y with img_height; with clip_boxes not set it    *)
(* changes no coordinate.                                                  *)
C16_ClipStep ==
    Returned =>
        \A T \in {boxes_corners(self, x_shape)} : \A p \in Positions :
            LET before == T[p[2]][p[3]][p[4]]
                after == Denormalized(OutCorners(OutBox(p)))
                W == args.img_width.num
                H == args.img_height.num
            IN  IF IsTrue(args.clip_boxes)
                THEN after = <<ClipAsStated(before[1], W), ClipAsStated(before[2], H),
                               ClipAsStated(before[3], W), ClipAsStated(before[4], H)>>
                ELSE after = before

\* one x is kept between img_width - 1 and img_width, one x >= img_width is
\* replaced and one negative x is set to 0
C16_Witness ==
    /\ Returned /\ IsTrue(args.clip_boxes)
    /\ \E T \in {boxes_corners(self, x_shape)} :
        LET W == args.img_width.num
            xs == {<<T[p[2]][p[3]][p[4]][i], Denormalized(OutCorners(OutBox(p)))[i]>> :
                        p \in Positions, i \in {1, 3}}
        IN  /\ \E x \in xs : RLt(RSub(W, R(1)), x[1]) /\ RLt(x[1], W) /\ x[2] = x[1]
            /\ \E x \in xs : RGe(x[1], W) /\ x[2] = RSub(W, R(1))
            /\ \E x \in xs : RLt(x[1], R(0)) /\ x[2] = R(0)

----------------------------------------------------------------------------
(* Steps, offsets and the grid of centres.                                 *)

\* the output is neither clipped nor normalized
Unclipped == Returned /\ ~IsTrue(args.clip_boxes) /\ ~IsTrue(args.normalize_coords)

\* the centre (cx, cy) of the output box at position p
OutCentre(p) ==
    LET c == OutCorners(OutBox(p))
    IN  <<Half(RAdd(c[1], c[3])), Half(RAdd(c[2], c[4]))>>

\* the grid the call generates
grid_height == x_shape[2]
grid_width == x_shape[3]

\* the steps as stated: the image side over the grid side, a scalar for both,
\* or the elements of a pair
StepHeightAsStated ==
    IF args.this_steps.ty = "NoneType" THEN RDiv(args.img_height.num, R(grid_height))
    ELSE IF args.this_steps.ty \in {"int", "float"} THEN args.this_steps.num
    ELSE args.this_steps.items[1]
StepWidthAsStated ==
    IF args.this_steps.ty = "NoneType" THEN RDiv(args.img_width.num, R(grid_width))
    ELSE IF args.this_steps.ty \in {"int", "float"} THEN args.this_steps.num
    ELSE args.this_steps.items[2]

(* C17: with this_steps None the steps are img_height / grid height and    *)
(* img_width / grid width in true division; a scalar is both steps; of a   *)
(* pair the first element is step_height and the second step_width.        *)
C17_StepSizes ==
    Called =>
        /\ step_height(self, x_shape) = StepHeightAsStated
        /\ step_width(self, x_shape) = StepWidthAsStated
        /\ Unclipped => \A p \in Positions :
            /\ p[2] > 1 => RSub(OutCentre(p)[2], OutCentre(<<p[1], p[2] - 1, p[3], p[4]>>)[2])
                                = StepHeightAsStated
            /\ p[3] > 1 => RSub(OutCentre(p)[1], OutCentre(<<p[1], p[2], p[3] - 1, p[4]>>)[1])
                                = StepWidthAsStated

\* no steps given and a width the grid does not divide: the step is 5 / 2
C17_Witness ==
    /\ Unclipped
    /\ args.this_steps = PyNone
    /\ grid_height = 2 /\ grid_width = 2
    /\ step_width(self, x_shape) = Q(5, 2) /\ step_height(self, x_shape) = R(2)
    /\ RSub(OutCentre(<<1, 1, 2, 1>>)[1], OutCentre(<<1, 1, 1, 1>>)[1]) = Q(5, 2)

OffsetHeightAsStated ==
    IF args.this_offsets.ty = "NoneType" THEN Q(1, 2)
    ELSE IF args.this_offsets.ty \in {"int", "float"} THEN args.this_offsets.num
    ELSE args.this_offsets.items[1]
OffsetWidthAsStated ==
    IF args.this_offsets.ty = "NoneType" THEN Q(1, 2)
    ELSE IF args.this_offsets.ty \in {"int", "float"} THEN args.this_offsets.num
    ELSE args.this_offsets.items[2]

(* C18: with this_offsets None both offsets are 0.5; a scalar is both      *)
(* offsets; of a pair the first element is offset_height and the second    *)
(* offset_width; the first centre is offset * step, a fraction of the step *)
(* and not a pixel value.                                                  *)
C18_Offsets ==
    Called =>
        /\ offset_height(self) = OffsetHeightAsStated
        /\ offset_width(self) = OffsetWidthAsStated
        /\ Unclipped => \A p \in Positions :
            /\ p[2] = 1 => OutCentre(p)[2] = RMul(OffsetHeightAsStated, StepHeightAsStated)
            /\ p[3] = 1 => OutCentre(p)[1] = RMul(OffsetWidthAsStated, StepWidthAsStated)

\* a pair of offsets (1/2, 3/4) with steps 4 and 5: first centres 2 and 15/4
C18_Witness ==
    /\ Unclipped
    /\ args.this_offsets = PyList(<<Q(1, 2), Q(3, 4)>>)
    /\ grid_height = 1 /\ grid_width = 1
    /\ OutCentre(<<1, 1, 1, 1>>) = <<Q(15, 4), R(2)>>

\* num values from start to stop, both included, evenly spaced
EvenlySpaced(v, start, stop, num) ==
    /\ Len(v) = num
    /\ v[1] = start
    /\ num > 1 => v[num] = stop
    /\ \A i \in 1..num :
        num > 1 => RMul(RSub(v[i], start), R(num - 1)) = RMul(R(i - 1), RSub(stop, start))

(* C19: the row centres are grid-height values evenly spaced from          *)
(* offset_height * step_height to (offset_height + grid height - 1) *      *)
(* step_height, both included, one value offset_height * step_height for a *)
(* grid of height 1; the column centres likewise with the width terms.     *)
C19_CentreGrid ==
    Called =>
        /\ EvenlySpaced(cy(self, x_shape),
                        RMul(OffsetHeightAsStated, StepHeightAsStated),
                        RMul(RAdd(OffsetHeightAsStated, R(grid_height - 1)), StepHeightAsStated),
                        grid_height)
        /\ EvenlySpaced(cx(self, x_shape),
                        RMul(OffsetWidthAsStated, StepWidthAsStated),
                        RMul(RAdd(OffsetWidthAsStated, R(grid_width - 1)), StepWidthAsStated),
                        grid_width)
        /\ Unclipped => \A ys \in {cy(self, x_shape)}, xc \in {cx(self, x_shape)} :
                \A p \in Positions : OutCentre(p) = <<xc[p[3]], ys[p[2]]>>

\* ten row centres from 15 to 285, the fifth 135
C19_Witness ==
    /\ Unclipped
    /\ grid_height = 10 /\ grid_width = 10
    /\ Len(cy(self, x_shape)) = 10
    /\ cy(self, x_shape)[5] = R(135) /\ cx(self, x_shape)[10] = R(285)
    /\ OutCentre(<<1, 5, 10, 1>>) = <<R(285), R(135)>>

(* C20: before any conversion the (h, w, n_boxes, 4) tensor holds at       *)
(* [row, col, k] the column centre of col, the row centre of row, and the  *)
(* width and height of shape-list entry k: the centres do not depend on k, *)
(* width and height not on (row, col).                                     *)
C20_Layout ==
    Returned =>
        \A T \in {boxes_centroids(self, x_shape)} :
        \A ys \in {cy(self, x_shape)}, xc \in {cx(self, x_shape)}, wh \in {wh_list(self)} :
            /\ Len(T) = grid_height
            /\ \A row \in 1..Len(T) :
                /\ Len(T[row]) = grid_width
                /\ \A col \in 1..Len(T[row]) :
                    /\ Len(T[row][col]) = self.n_boxes.num[1]
                    /\ \A k \in 1..Len(T[row][col]) :
                        T[row][col][k] = <<xc[col], ys[row], wh[k][1], wh[k][2]>>

\* a 2 x 2 grid of three boxes of different shapes, centres off the diagonal
C20_Witness ==
    /\ Returned
    /\ grid_height = 2 /\ grid_width = 2 /\ self.n_boxes.num[1] = 3
    /\ \E T \in {boxes_centroids(self, x_shape)} :
        /\ T[2][1][1][1] # T[2][1][1][2]
        /\ T[1][1][1][3] # T[1][1][3][3]
        /\ T[1][1][3][3] # T[1][1][3][4]
        /\ T[1][2][2] = <<T[1][2][1][1], T[1][1][1][2], T[2][2][2][3], T[2][1][2][4]>>

----------------------------------------------------------------------------
(* Normalizing and the output format.                                      *)

\* the corner box (xmin, ymin, xmax, ymax) b after the clip step as stated
ClipBoxAsStated(b) ==
    IF IsTrue(args.clip_boxes)
    THEN <<ClipAsStated(b[1], args.img_width.num), ClipAsStated(b[2], args.img_height.num),
           ClipAsStated(b[3], args.img_width.num), ClipAsStated(b[4], args.img_height.num)>>
    ELSE b

\* both x of the corner box b divided by img_width, both y by img_height
DividedByImageSize(b) ==
    <<RDiv(b[1], args.img_width.num), RDiv(b[2], args.img_height.num),
      RDiv(b[3], args.img_width.num), RDiv(b[4], args.img_height.num)>>

\* some value of the corner box c is below 0 and some is above 1
OutsideUnitInterval(c) ==
    /\ \E i \in 1..4 : RLt(c[i], R(0))
    /\ \E i \in 1..4 : RLt(R(1), c[i])

(* C21: the corner box behind every output box is the clipped corner box   *)
(* with both x divided by img_width and both y by img_height when          *)
(* normalize_coords is set, and the clipped corner box itself when it is   *)
(* not; the quotients are not clamped.                                     *)
C21_NormalizeStep ==
    Returned =>
        \A T \in {boxes_corners(self, x_shape)} : \A p \in Positions :
            LET box == ClipBoxAsStated(T[p[2]][p[3]][p[4]])
                after == OutCorners(OutBox(p))
            IN  IF IsTrue(args.normalize_coords)
                THEN after = DividedByImageSize(box)
                ELSE after = box

\* an unclipped, normalized box with one coordinate below 0 and one above 1
C21_Witness ==
    /\ Returned /\ IsTrue(args.normalize_coords) /\ ~IsTrue(args.clip_boxes)
    /\ \E T \in {boxes_corners(self, x_shape)} : \E p \in Positions :
        /\ OutCorners(OutBox(p)) = DividedByImageSize(T[p[2]][p[3]][p[4]])
        /\ OutsideUnitInterval(OutCorners(OutBox(p)))

(* C22: the first four values of every output box are the clipped,         *)
(* normalized corner box (xmin, ymin, xmax, ymax) in the configured        *)
(* format: unchanged for 'corners', (xmin, xmax, ymin, ymax) for 'minmax', *)
(* ((xmin + xmax) / 2, (ymin + ymax) / 2, xmax - xmin, ymax - ymin) for    *)
(* 'centroids'.                                                            *)
C22_OutputFormat ==
    Returned =>
        \A C \in {clipped_corners(self, x_shape)} : \A p \in Positions :
            LET b == C[p[2]][p[3]][p[4]]
                first4 == SubSeq(OutBox(p), 1, 4)
            IN  /\ args.coords.str = "corners" => first4 = b
                /\ args.coords.str = "minmax" => first4 = <<b[1], b[3], b[2], b[4]>>
                /\ args.coords.str = "centroids" =>
                        first4 = <<RDiv(RAdd(b[1], b[3]), R(2)), RDiv(RAdd(b[2], b[4]), R(2)),
                                   RSub(b[3], b[1]), RSub(b[4], b[2])>>

\* a clipped, normalized box whose three formats all differ, given as centroids
C22_Witness ==
    /\ Returned /\ args.coords.str = "centroids"
    /\ IsTrue(args.clip_boxes) /\ IsTrue(args.normalize_coords)
    /\ \E C \in {clipped_corners(self, x_shape)} : \E p \in Positions :
        LET b == C[p[2]][p[3]][p[4]]
        IN  /\ b[2] # b[3]
            /\ SubSeq(OutBox(p), 1, 4) # b
            /\ SubSeq(OutBox(p), 1, 4) # <<b[1], b[3], b[2], b[4]>>
            /\ OutBox(p)[3] = RSub(b[3], b[1]) /\ RLt(R(0), OutBox(p)[3])

(* C26: with clip_boxes set every output box has xmin <= xmax and          *)
(* ymin <= ymax, and with coords 'centroids' its width and height are not  *)
(* negative.                                                               *)
C26_ClipKeepsOrientation ==
    (Returned /\ IsTrue(args.clip_boxes)) =>
        \A p \in Positions :
            LET c == OutCorners(OutBox(p))
            IN  /\ RLe(c[1], c[3]) /\ RLe(c[2], c[4])
                /\ args.coords.str = "centroids" =>
                        RLe(R(0), OutBox(p)[3]) /\ RLe(R(0), OutBox(p)[4])

\* the centres v are (offset + i) * step for i = 0 .. num - 1
OnMultiplicationGrid(v, offset, step, num) ==
    /\ Len(v) = num
    /\ \A i \in 1..num : v[i] = RMul(RAdd(offset, R(i - 1)), step)
    /\ \A i \in 1..(num - 1) : RSub(v[i + 1], v[i]) = step

\* with the default step and offset the centres v run from step / 2 to
\* extent - step / 2 and lie strictly inside (0, extent)
DefaultCentresInside(v, extent, num) ==
    LET step == RDiv(extent, R(num))
    IN  /\ v[1] = RDiv(step, R(2))
        /\ v[num] = RSub(extent, RDiv(step, R(2)))
        /\ \A i \in 1..num : RLt(R(0), v[i]) /\ RLt(v[i], extent)

(* C29: the i-th row centre is (offset_height + i) * step_height for every *)
(* i below the grid height and consecutive row centres differ by           *)
(* step_height; with the default step and offset the first is step / 2,    *)
(* the last img_height - step / 2 and all lie strictly inside the image;   *)
(* likewise for the columns.                                               *)
C29_MultiplicationGrid ==
    Called =>
        \A ys \in {cy(self, x_shape)}, xc \in {cx(self, x_shape)} :
            /\ OnMultiplicationGrid(ys, OffsetHeightAsStated, StepHeightAsStated, grid_height)
            /\ OnMultiplicationGrid(xc, OffsetWidthAsStated, StepWidthAsStated, grid_width)
            /\ (args.this_steps = PyNone /\ args.this_offsets = PyNone) =>
                    /\ DefaultCentresInside(ys, args.img_height.num, grid_height)
                    /\ DefaultCentresInside(xc, args.img_width.num, grid_width)
            /\ Unclipped => \A p \in Positions :
                    OutCentre(p) = <<RMul(RAdd(OffsetWidthAsStated, R(p[3] - 1)), StepWidthAsStated),
                                     RMul(RAdd(OffsetHeightAsStated, R(p[2] - 1)), StepHeightAsStated)>>

\* default step and offset on a width the grid does not divide: the two
\* column centres are 5/4 and 15/4, the two row centres 1 and 3
C29_Witness ==
    /\ Called
    /\ args.this_steps = PyNone /\ args.this_offsets = PyNone
    /\ args.img_width.num = R(5) /\ grid_width = 2 /\ grid_height = 2
    /\ cx(self, x_shape) = <<Q(5, 4), Q(15, 4)>>
    /\ cy(self, x_shape) = <<R(1), R(3)>>
    /\ Unclipped /\ OutCentre(<<1, 2, 2, 1>>) = <<Q(15, 4), R(3)>>

----------------------------------------------------------------------------
(* get_config.                                                             *)

\* a layer has been rebuilt from the configuration of the constructed one
Restored == pc = "restored"

(* C27: for every constructed layer, the construction of a layer from the *)
(* dict get_config returns succeeds and gives a layer with the same       *)
(* n_boxes that generates the same anchor tensor for every grid size.      *)
C27_ConfigRoundTrip ==
    Restored =>
        /\ restored.raised = NoError
        /\ restored.self.n_boxes = self.n_boxes
        /\ \A xs \in InputShapesOf(args) :
                AnchorBoxes_call(restored.self, xs) = AnchorBoxes_call(self, xs)

----------------------------------------------------------------------------
(* build_model.                                                            *)

\* build_model returned a model
Built == pc = "built"
\* build_model got past its checks and began to build the network
Started == pc \in {"built", "build_failed"} /\ model.started

\* the i-th of the 5 values from min_scale to max_scale in equal steps
InterpolatedAsStated(i) ==
    RAdd(build_args.min_scale.num,
         RMul(Q(i - 1, n_predictor_layers),
              RSub(build_args.max_scale.num, build_args.min_scale.num)))

\* element k of a per-layer argument v, None if v is None
ElementAsStated(v, k) == IF v = PyNone THEN PyNone ELSE v.items[k]

\* entry e of a shape list is the second box of aspect ratio 1 of a layer
\* with attributes s: a square of side sqrt(this_scale * next_scale) * size
SecondBoxForRatioOne(s, e) ==
    /\ IsTrue(s.two_boxes_for_ar1) /\ ContainsOne(s.aspect_ratios)
    /\ e[1] = e[2]
    /\ IsRootOf(RDiv(e[1], size(s)), RMul(s.this_scale.num, s.next_scale.num))

(* C23: the anchor layer of predictor layer k is constructed with scales[k] *)
(* as this_scale, scales[k + 1] as next_scale and the k-th aspect ratios,  *)
(* steps and offsets; with no scales passed, scales is the 5 values from   *)
(* min_scale to max_scale in equal steps, so the last layer has the fourth *)
(* as its scale and max_scale as next_scale, which changes no entry of its *)
(* shape list but the second box of aspect ratio 1.                        *)
C23_AnchorArguments ==
    Built =>
        /\ Len(model.anchors) = n_predictor_layers
        /\ Len(model.scales) = n_predictor_layers + 1
        /\ \A k \in 1..n_predictor_layers :
            LET passed == model.anchors[k].args
            IN  /\ passed.this_scale = model.scales[k]
                /\ passed.next_scale = model.scales[k + 1]
                /\ passed.aspect_ratios =
                        IF build_args.aspect_ratios_per_layer = PyNone
                        THEN build_args.aspect_ratios_global
                        ELSE build_args.aspect_ratios_per_layer.items[k]
                /\ passed.this_steps = ElementAsStated(build_args.steps, k)
                /\ passed.this_offsets = ElementAsStated(build_args.offsets, k)
        /\ build_args.scales = PyNone =>
            /\ \A i \in 1..(n_predictor_layers + 1) :
                    model.scales[i].num = InterpolatedAsStated(i)
            /\ LET last == model.anchors[n_predictor_layers].self
                    other == [last EXCEPT !.next_scale = PyFloat(4, 1)]
               IN  /\ last.this_scale.num = InterpolatedAsStated(n_predictor_layers)
                   /\ last.next_scale.num = build_args.max_scale.num
                   /\ Len(wh_list(other)) = Len(wh_list(last))
                   /\ \A i \in 1..Len(wh_list(last)) :
                        \/ wh_list(other)[i] = wh_list(last)[i]
                        \/ SecondBoxForRatioOne(last, wh_list(last)[i])

\* no scales passed, the defaults 0.1 and 0.9 interpolated; ratios, steps
\* and offsets of their own for every layer; the last layer has scale 0.7
\* and its second box for ratio 1 the side sqrt(0.7 * 0.9) * 64
C23_Witness ==
    /\ Built
    /\ build_args.scales = PyNone
    /\ build_args.aspect_ratios_per_layer = RatiosPerLayer
    /\ build_args.steps # PyNone /\ build_args.offsets # PyNone
    /\ model.anchors[1].args.this_steps = PyFloat(5, 2)
    /\ model.anchors[3].args.this_steps = PyTuple(<<R(2), R(4)>>)
    /\ model.anchors[4].args.this_scale = PyFloat(7, 10)
    /\ model.anchors[4].args.next_scale = PyFloat(9, 10)
    /\ \E i \in 1..Len(wh_list(model.anchors[4].self)) :
        /\ SecondBoxForRatioOne(model.anchors[4].self, wh_list(model.anchors[4].self)[i])
        /\ wh_list(model.anchors[4].self)[i][1] # RMul(Q(7, 10), R(64))

\* the sum of the elements of a sequence of numbers
RECURSIVE Sum(_)
Sum(v) == IF v = <<>> THEN 0 ELSE Head(v) + Sum(Tail(v))

(* C24: for every predictor layer k the n_boxes[k] of build_model equals   *)
(* the n_boxes of the layer's AnchorBoxes; the reshaped classes, boxes and *)
(* anchors of layer k have height * width * n_boxes[k] rows each, and the  *)
(* three concatenations have the same length.                              *)
C24_BoxCounts ==
    (Started /\ \A i \in 1..Len(model.anchors) : model.anchors[i].raised = NoError) =>
        /\ Len(model.anchors) = n_predictor_layers
        /\ \A k \in 1..Len(model.anchors) :
            LET rows == model.sizes[k][1] * model.sizes[k][2] * model.n_boxes[k]
            IN  /\ model.anchors[k].self.n_boxes = PyInt(model.n_boxes[k])
                /\ model.classes_rows[k] = rows
                /\ model.boxes_rows[k] = rows
                /\ model.anchors_rows[k] = rows
        /\ Sum(model.classes_rows) = Sum(model.boxes_rows)
        /\ Sum(model.anchors_rows) = Sum(model.boxes_rows)

\* the checks build_model makes before the scales block passed
ChecksBeforeScalesPassed ==
    pc \in {"built", "build_failed"} /\ model.raised.line \notin {194, 198, 202, 207, 213}

(* C25: when scales is a list or tuple, build_model either takes exactly   *)
(* its elements as the scaling factors, if it has 5 elements, all above 0, *)
(* or raises ValueError for its length or for an element <= 0; min_scale   *)
(* and max_scale are not checked.                                          *)
C25_ScalesOverride ==
    (ChecksBeforeScalesPassed /\ IsListOrTuple(build_args.scales)) =>
        /\ model.raised.line \notin {218, 235, 237}
        /\ IF /\ Len(build_args.scales.items) = n_predictor_layers + 1
              /\ \A i \in 1..Len(build_args.scales.items) :
                    RLt(R(0), build_args.scales.items[i].num)
           THEN /\ Len(model.scales) = Len(build_args.scales.items)
                /\ \A i \in 1..Len(model.scales) :
                        model.scales[i].num = build_args.scales.items[i].num
           ELSE /\ model.raised.cls = "ValueError"
                /\ model.raised.line \in {223, 228}

(* C28: once the checks of build_model have passed, none of the            *)
(* constructions of its four anchor layers raises.                         *)
C28_ChecksCoverConstructor ==
    (Started /\ backend = "tensorflow") =>
        \A i \in 1..Len(model.anchors) : model.anchors[i].raised = NoError

====
